---- MODULE Spec2Model ----
(***************************************************************************)
(* Model of the extraction-and-scoring engine of src/extractor.py          *)
(* (extraire_donnees_environnementales and everything it calls).           *)
(*                                                                         *)
(* The OCR text is a sequence of lexical tokens, rendered with one blank   *)
(* between two tokens.  A token is a record [k, w, ds, f]:                 *)
(*   k = "w"   a word or phrase, w is its text                             *)
(*   k = "n"   a decimal number, ds its digits, f the number of digits     *)
(*             after the '.' (f = 0: no '.')                               *)
(*   k = "d"   an ISO date yyyy-mm-dd, ds its eight digits; w = "ar" when   *)
(*             they are written in Arabic-Indic digits, which \d, int()    *)
(*             and float() read as they read the ASCII ones                *)
(*   k = "mal" the malformed number 1.2.3                                  *)
(*   k = "big" a run of 5000 digits '1' (longer than the 4300 digits      *)
(*             CPython's int() accepts, and float() reads it as inf)       *)
(* Every regular expression of the source is translated to the tokens it   *)
(* matches over this vocabulary.  Numbers are exact decimals n * 10^-s.    *)
(***************************************************************************)
EXTENDS Integers, Sequences, FiniteSets, TLC

\* ------------------------------------------------------------------ bounds
\* longest free text over a family's alphabet
MaxLen == 3
\* most readings in a text of readings
MaxReadings == 2
\* invocations of the pipeline on one text
MaxCalls == 2

\* ------------------------------------------------------------------ tokens
W(w) == [k |-> "w", w |-> w, ds |-> <<>>, f |-> 0]
N(ds, f) == [k |-> "n", w |-> "", ds |-> ds, f |-> f]
D(ds) == [k |-> "d", w |-> "", ds |-> ds, f |-> 0]
DAr(ds) == [k |-> "d", w |-> "ar", ds |-> ds, f |-> 0]
Mal == [k |-> "mal", w |-> "", ds |-> <<>>, f |-> 0]
Big == [k |-> "big", w |-> "", ds |-> <<>>, f |-> 0]

Min(a, b) == IF a < b THEN a ELSE b
Max(a, b) == IF a < b THEN b ELSE a

RECURSIVE Pow10(_)
Pow10(e) == IF e = 0 THEN 1 ELSE 10 * Pow10(e - 1)

\* a digit string without its leading zeros
RECURSIVE Strip0(_)
Strip0(ds) == IF ds # <<>> /\ ds[1] = 0 THEN Strip0(Tail(ds)) ELSE ds

\* the number a string of at most nine significant digits denotes
RECURSIVE DigVal(_)
DigVal(ds) ==
  IF ds = <<>> THEN 0 ELSE 10 * DigVal(SubSeq(ds, 1, Len(ds) - 1)) + ds[Len(ds)]

\* the digits of a natural number
RECURSIVE Digits(_)
Digits(n) == IF n < 10 THEN <<n>> ELSE Append(Digits(n \div 10), n % 10)

\* ------------------------------------------------- _normalize and the lexicons
TypeOrder == <<"electricite", "gaz_naturel", "eau", "essence", "diesel", "gpl">>

\* _TYPE_KEYWORDS, the keywords written in ASCII (the accented and Arabic ones
\* occur in no token of the vocabulary)
TYPE_KEYWORDS(t) ==
  CASE t = "electricite" ->
         {"steg", "electricite", "electricity", "kwh", "kilowatt",
          "consommation electrique", "tarif electricite", "puissance souscrite",
          "heures pleines", "heures creuses"}
    [] t = "gaz_naturel" ->
         {"gaz naturel", "natural gas", "thermie", "consommation gaz",
          "compteur gaz", "total gaz"}
    [] t = "eau" ->
         {"eau", "sonede", "eau potable", "water", "consommation eau",
          "assainissement", "compteur eau", "facture eau", "tarif eau"}
    [] t = "essence" -> {"essence", "gasoline", "sans plomb", "sp95", "sp98"}
    [] t = "diesel" -> {"diesel", "gasoil", "gazole"}
    [] t = "gpl" -> {"gpl", "lpg", "butane", "propane"}

\* the keywords (of the type lexicon and of the supplier table) that are
\* substrings of the lower-cased text of a word token
Contains(w) ==
  CASE w = "STEG" -> {"steg"}
    [] w = "eau" -> {"eau"}
    [] w = "sonede" -> {"sonede"}
    [] w = "Shell" -> {"shell"}
    [] w = "Shell Energy" -> {"shell", "shell energy"}
    [] w = "EDF" -> {"edf"}
    [] w = "Electricite" -> {"electricite"}
    [] w = "Total Electricite" -> {"electricite"}
    [] w = "kWh" -> {"kwh"}
    [] w = "Total Gaz" -> {"total gaz"}
    [] w = "diesel" -> {"diesel"}
    [] w = "electricity" -> {"electricity"}
    [] w = "kilowatt" -> {"kilowatt"}
    [] w = "consommation electrique" -> {"consommation electrique"}
    [] w = "tarif electricite" -> {"electricite", "tarif electricite"}
    [] w = "puissance souscrite" -> {"puissance souscrite"}
    [] w = "heures pleines" -> {"heures pleines"}
    [] w = "heures creuses" -> {"heures creuses"}
    [] w = "gaz naturel" -> {"gaz naturel"}
    [] w = "thermie" -> {"thermie"}
    [] w = "compteur gaz" -> {"compteur gaz"}
    [] w = "water" -> {"water"}
    [] w = "assainissement" -> {"assainissement"}
    [] w = "Societe Tunisienne de l Electricite et du Gaz" ->
         {"electricite", "societe tunisienne de l electricite",
          "tunisienne de l electricite"}
    [] OTHER -> {}

\* the keywords that lie across the blank between two adjacent tokens
Across(a, b) ==
  IF a.k # "w" \/ b.k # "w" THEN {}
  ELSE (IF a.w = "CONSOMMATION" /\ b.w \in {"Gaz", "GAZ-NATUR", "gaz naturel"}
          THEN {"consommation gaz"} ELSE {})
       \cup (IF a.w = "MONTANT TOTAL" /\ b.w \in {"Gaz", "GAZ-NATUR", "gaz naturel"}
          THEN {"total gaz"} ELSE {})
       \cup (IF a.w = "CONSOMMATION" /\ b.w = "eau" THEN {"consommation eau"} ELSE {})
       \cup (IF a.w = "Facture" /\ b.w = "eau" THEN {"facture eau"} ELSE {})

\* kw in text_lower, for text_lower = _normalize(text)
InLower(kw, text) ==
  \/ \E i \in 1..Len(text) : text[i].k = "w" /\ kw \in Contains(text[i].w)
  \/ \E i \in 1..(Len(text) - 1) : kw \in Across(text[i], text[i + 1])

\* the keyword-hit count of one energy category
TypeScore(t, text) == Cardinality({kw \in TYPE_KEYWORDS(t) : InLower(kw, text)})

\* sorted(scores.items(), key = score, reverse = True): a stable sort, so equal
\* scores keep the order of _TYPE_KEYWORDS.  Rank(t) counts the categories put
\* before category number t.
RankOf(i, text) ==
  Cardinality({j \in 1..Len(TypeOrder) :
     LET si == TypeScore(TypeOrder[i], text)
         sj == TypeScore(TypeOrder[j], text)
     IN  sj > 0 /\ (sj > si \/ (sj = si /\ j < i))})

SortedTypes(text) ==
  LET scored == {i \in 1..Len(TypeOrder) : TypeScore(TypeOrder[i], text) > 0}
  IN  [r \in 1..Cardinality(scored) |->
         TypeOrder[CHOOSE i \in scored : RankOf(i, text) = r - 1]]

\* the filter without the 0.3 * max_score part: every category that scored
AnyHit(s, maxScore) == s >= 1

\* s >= max(1, max_score * 0.3), in tenths
AboveThreshold(s, maxScore) == 10 * s >= Max(10, 3 * maxScore)

\* the detection without the ["inconnu"] of an empty score table
detect_all_types_no_sentinel(text) ==
  LET sorted == SortedTypes(text)
  IN  SelectSeq(sorted, LAMBDA t : AboveThreshold(TypeScore(t, text), TypeScore(sorted[1], text)))

detect_all_types(text) ==
  LET sorted == SortedTypes(text)
  IN  IF sorted = <<>> THEN <<"inconnu">>
      ELSE LET maxScore == TypeScore(sorted[1], text)
               keep(t) == AboveThreshold(TypeScore(t, text), maxScore)
           IN  SelectSeq(sorted, keep)

\* the supplier table of _detect_fournisseur, in declaration order
FournisseurOrder == <<"STEG", "SONEDE", "EDF", "Engie", "TotalEnergies", "Shell">>

FournisseurKeywords(name) ==
  CASE name = "STEG" ->
         {"steg", "societe tunisienne de l electricite", "societe tunisienne du gaz",
          "tunisienne du gaz", "tunisienne de l electricite"}
    [] name = "SONEDE" ->
         {"eau", "sonede", "societe nationale d exploitation", "distribution des eaux"}
    [] name = "EDF" -> {"edf", "electricite de france"}
    [] name = "Engie" -> {"engie"}
    [] name = "TotalEnergies" -> {"totalenergies", "total energies"}
    [] name = "Shell" -> {"shell energy", "shell"}

\* the weights, in tenths
FournisseurWeight(name) == IF name = "Shell" THEN 8 ELSE 10

FournisseurScore(name, text) ==
  FournisseurWeight(name)
    * Cardinality({kw \in FournisseurKeywords(name) : InLower(kw, text)})

\* the loop with "score >= best_score": the last supplier of a tie is kept
RECURSIVE BestFournisseur_last(_, _, _, _)
BestFournisseur_last(i, text, bestName, bestScore) ==
  IF i > Len(FournisseurOrder) THEN bestName
  ELSE LET s == FournisseurScore(FournisseurOrder[i], text)
       IN  IF s >= bestScore /\ s > 0
           THEN BestFournisseur_last(i + 1, text, FournisseurOrder[i], s)
           ELSE BestFournisseur_last(i + 1, text, bestName, bestScore)

\* the loop keeps the first supplier with the strictly highest score
RECURSIVE BestFournisseur(_, _, _, _)
BestFournisseur(i, text, bestName, bestScore) ==
  IF i > Len(FournisseurOrder) THEN bestName
  ELSE LET s == FournisseurScore(FournisseurOrder[i], text)
       IN  IF s > bestScore
           THEN BestFournisseur(i + 1, text, FournisseurOrder[i], s)
           ELSE BestFournisseur(i + 1, text, bestName, bestScore)

detect_fournisseur(text) == BestFournisseur(1, text, "None", 0)

\* ------------------------------------------------------- views of a token
\* the smallest element of a set of positions, 0 for the empty set
First(S) == IF S = {} THEN 0 ELSE CHOOSE i \in S : \A j \in S : i <= j

IsW(tok, ws) == tok.k = "w" /\ tok.w \in ws

\* the digit run a token's text begins with (\d+ right after a label)
LeadRun(tok) ==
  CASE tok.k = "n" -> SubSeq(tok.ds, 1, Len(tok.ds) - tok.f)
    [] tok.k = "d" -> SubSeq(tok.ds, 1, 4)
    [] tok.k = "mal" -> <<1>>
    [] OTHER -> <<>>

\* the digit run a token's text ends with (\d+ right before a unit)
WordTrailRun(w) ==
  CASE w = "SG14040520S607" -> <<6, 0, 7>>
    [] w = "mars 2022" -> <<2, 0, 2, 2>>
    [] w = "m3" -> <<3>>
    [] w = "CO2" -> <<2>>
    [] OTHER -> <<>>

TrailRun(tok) ==
  CASE tok.k = "n" ->
         IF tok.f = 0 THEN tok.ds
         ELSE SubSeq(tok.ds, Len(tok.ds) - tok.f + 1, Len(tok.ds))
    [] tok.k = "d" -> SubSeq(tok.ds, 7, 8)
    [] tok.k = "mal" -> <<3>>
    [] tok.k = "w" -> WordTrailRun(tok.w)
    [] OTHER -> <<>>

\* the first (at most n) digits and the last (at most n) digits of a run
FirstDigits(run, n) == SubSeq(run, 1, Min(n, Len(run)))
LastDigits(run, n) == SubSeq(run, Max(1, Len(run) - n + 1), Len(run))

\* 5000 digits '1' begin and end with ones
Ones(n) == [i \in 1..n |-> 1]

\* int(run): the value, for 1 <= int(run) <= hi with hi < 10^9 decided on the
\* significant digits alone
IntInRange(run, lo, hi) ==
  LET sig == Strip0(run)
  IN  Len(sig) <= 9 /\ DigVal(sig) >= lo /\ DigVal(sig) <= hi

\* tokens without a letter ([^a-z]* under IGNORECASE)
NoLetter(tok) == tok.k # "w" \/ tok.w \in {":", "&"}

\* word tokens made of letters, blanks, '.', ',' and '-' only
\* ([A-ZÀ-Ÿ\s.,\-]+ under IGNORECASE)
AlphaWords ==
  {"STEG", "eau", "sonede", "Shell", "Shell Energy", "EDF", "Electricite", "kWh",
   "Gaz", "Total Electricite", "Total Gaz", "Total Services", "GAZ-NATUR",
   "CONSOMMATION", "Depannage", "Montant a payer", "MONTANT TOTAL", "Montant",
   "Bulletin de versement", "litres", "diesel", "kg", "TTC", "electricity",
   "kilowatt", "consommation electrique", "tarif electricite",
   "puissance souscrite", "heures pleines", "heures creuses", "gaz naturel",
   "thermie", "compteur gaz", "water", "assainissement",
   "Societe Tunisienne de l Electricite et du Gaz", "Facture", "ref", "N",
   "District", "KRAM", "FACTURE INTERMEDIAIRE", "SERVICES", "ECLAIRAGE",
   "Redevances Fixes", "SEPT CENTS SOIXANTE-DIX-SEPT DINARS ZERO MLLIMES",
   "poste", "au", "dt"}

\* ':' tokens between a label and its value ([:\s]*)
RECURSIVE SkipColons(_, _)
SkipColons(text, i) ==
  IF i <= Len(text) /\ IsW(text[i], {":"}) THEN SkipColons(text, i + 1) ELSE i

\* --------------------------------------------------------- anchors (regex)
\* r'consommation'
HasConso(tok) ==
  IsW(tok, {"CONSOMMATION", "consommation electrique", "Total Consommation & Services"})

\* r'electricit[ée]'
HasElec(tok) ==
  IsW(tok, {"Electricite", "Total Electricite", "tarif electricite",
            "Societe Tunisienne de l Electricite et du Gaz"})

\* the text of the token begins with the word gaz / ends with the word gaz /
\* contains gaz
StartsGaz(tok) == IsW(tok, {"Gaz", "GAZ-NATUR", "gaz naturel"})
EndsGazWord(tok) ==
  IsW(tok, {"Gaz", "Total Gaz", "compteur gaz",
            "Societe Tunisienne de l Electricite et du Gaz"})
HasGaz(tok) == StartsGaz(tok) \/ EndsGazWord(tok)

\* a match of r'total\s*gaz' begins in token i; AnchorEnd is the token it ends in
TotalGazAt(text, i) ==
  \/ IsW(text[i], {"Total Gaz"})
  \/ IsW(text[i], {"MONTANT TOTAL"}) /\ i < Len(text) /\ StartsGaz(text[i + 1])

\* r'total\s*electricit[ée]'
TotalElecAt(text, i) ==
  \/ IsW(text[i], {"Total Electricite"})
  \/ IsW(text[i], {"MONTANT TOTAL"}) /\ i < Len(text) /\ IsW(text[i + 1], {"Electricite"})

\* r'total\s*services'
TotalServAt(text, i) ==
  \/ IsW(text[i], {"Total Services"})
  \/ IsW(text[i], {"MONTANT TOTAL"}) /\ i < Len(text) /\ IsW(text[i + 1], {"SERVICES"})

AnchorEnd(text, i) == IF IsW(text[i], {"MONTANT TOTAL"}) THEN i + 1 ELSE i

\* r'redevances?\s*fixes.*?gaz' and r'\bgaz\b\s+redevance' begin in token i
RedevGazAt(text, i) ==
  \/ IsW(text[i], {"Redevances Fixes"}) /\ \E j \in (i + 1)..Len(text) : HasGaz(text[j])
  \/ EndsGazWord(text[i]) /\ i < Len(text) /\ IsW(text[i + 1], {"Redevances Fixes"})

\* r'montant\s*total', r'bulletin', r'versement' (no token holds 'fermer'); the
\* match either lies in one token or runs from "Montant" into a "Total ..." token
StartsTotal(tok) ==
  IsW(tok, {"Total Electricite", "Total Gaz", "Total Services",
            "Total Consommation & Services"})
MontantTotalAt(text, i) ==
  \/ IsW(text[i], {"MONTANT TOTAL"})
  \/ IsW(text[i], {"Montant"}) /\ i < Len(text) /\ StartsTotal(text[i + 1])
BulletinAt(text, i) == IsW(text[i], {"Bulletin de versement"})

\* r'contribution|taxe|tva|fte|redevance'
HasTaxe(tok) == IsW(tok, {"Redevances Fixes"})

\* text[lo..hi], empty when lo > hi
Slice(text, lo, hi) == IF lo > hi THEN <<>> ELSE SubSeq(text, lo, hi)

NoZones(text) ==
  [entete |-> <<>>, consommation |-> <<>>, electricite |-> <<>>, gaz |-> <<>>,
   montants |-> <<>>, taxes |-> <<>>, pied |-> <<>>]

\* the tokens between the first 'total electricite' that a closing anchor follows
\* and that anchor: group 1 of '(?:total\s*electricit[ée])(.*?)(?:closing)'
BetweenTotals(text, Closing(_, _)) ==
  LET opens == {i \in 1..Len(text) :
                  /\ TotalElecAt(text, i)
                  /\ \E j \in (AnchorEnd(text, i) + 1)..Len(text) : Closing(text, j)}
      o == First(opens)
      e == AnchorEnd(text, o)
      c == First({j \in (e + 1)..Len(text) : Closing(text, j)})
  IN  IF opens = {} THEN [found |-> FALSE, zone |-> <<>>]
      ELSE [found |-> TRUE, zone |-> Slice(text, e + 1, c - 1)]

GazZoneClosing(text, j) == TotalGazAt(text, j) \/ TotalServAt(text, j)

parse_zones_steg(text) ==
  LET c == First({i \in 1..Len(text) : HasConso(text[i])})
      rest == IF c = 0 THEN text ELSE SubSeq(text, c, Len(text))
      n == Len(rest)
      \* (electricit[ée].*?)(?=total\s*gaz|redevances?\s*fixes.*?gaz|\bgaz\b\s+redevance)
      es == First({i \in 1..n : HasElec(rest[i])})
      ee == IF es = 0 THEN 0
            ELSE First({j \in (es + 1)..n : TotalGazAt(rest, j) \/ RedevGazAt(rest, j)})
      \* (montant\s*total.*?)(?:bulletin|versement|fermer|$)
      ms == First({i \in 1..n : MontantTotalAt(rest, i)})
      me == IF ms = 0 THEN 0 ELSE First({j \in (ms + 1)..n : BulletinAt(rest, j)})
      \* (bulletin\s*de\s*versement.*)
      ps == First({i \in 1..n : BulletinAt(rest, i)})
      \* ((?:contribution|taxe|tva|fte|redevance).*?)(?:montant\s*total|bulletin|$)
      ts == First({i \in 1..n : HasTaxe(rest[i])})
      te == IF ts = 0 THEN 0
            ELSE First({j \in (ts + 1)..n : MontantTotalAt(rest, j) \/ BulletinAt(rest, j)})
  IN  [entete |-> IF c = 0 THEN text ELSE Slice(text, 1, c - 1),
       consommation |-> rest,
       electricite |-> IF es = 0 \/ ee = 0 THEN <<>> ELSE Slice(rest, es, ee - 1),
       gaz |-> BetweenTotals(rest, GazZoneClosing).zone,
       montants |-> IF ms = 0 THEN <<>>
                    ELSE Slice(rest, ms, IF me = 0 THEN n ELSE me - 1),
       taxes |-> IF ts = 0 THEN <<>>
                 ELSE Slice(rest, ts, IF te = 0 THEN n ELSE te - 1),
       pied |-> IF ps = 0 THEN <<>> ELSE Slice(rest, ps, n)]

\* r'montant|total|net' begins in a token
HasMontantTotalNet(tok) ==
  IsW(tok, {"Montant a payer", "MONTANT TOTAL", "Montant", "Total Electricite",
            "Total Gaz", "Total Services", "Total Consommation & Services"})

parse_zones_sonede(text) ==
  LET c == First({i \in 1..Len(text) : HasConso(text[i])})
      ms == First({i \in 1..Len(text) : HasMontantTotalNet(text[i])})
  IN  [NoZones(text) EXCEPT
         !.entete = IF c = 0 THEN text ELSE Slice(text, 1, c - 1),
         !.consommation = text,
         !.montants = IF ms = 0 THEN <<>> ELSE Slice(text, ms, Len(text))]

parse_zones_generic(text) ==
  [NoZones(text) EXCEPT !.entete = text, !.consommation = text, !.montants = text]

\* -------------------------------------------------------- values and strings
\* a float: n * 10^-s, or inf (float() of the 5000-digit run)
Val(n, s) == [inf |-> FALSE, n |-> n, s |-> s]
Inf == [inf |-> TRUE, n |-> 0, s |-> 0]

\* a string: the digits ds with a '.' before the last f of them (f > 0), or the
\* text txt
Str(ds, f) == [ds |-> ds, f |-> f, txt |-> ""]
Txt(t) == [ds |-> <<>>, f |-> 0, txt |-> t]

\* float(s) of a digit string s with f digits after the '.'
ParseNum(ds, f) == Val(DigVal(Strip0(ds)), f)

IntPart(v) == v.n \div Pow10(v.s)
FracPart(v) == v.n % Pow10(v.s)

\* a - b in units of 10^-max(a.s, b.s), for finite a and b whose integer parts
\* differ by at most 1; otherwise only the sign is kept
SignedDiff(a, b) ==
  LET S == Max(a.s, b.s)
      d == IntPart(a) - IntPart(b)
  IN  IF d > 1 THEN Pow10(S) * 2 ELSE IF d < -1 THEN -(Pow10(S) * 2)
      ELSE d * Pow10(S) + FracPart(a) * Pow10(S - a.s) - FracPart(b) * Pow10(S - b.s)

\* a < b, a > b on floats
VLt(a, b) ==
  IF a.inf THEN FALSE ELSE IF b.inf THEN TRUE ELSE SignedDiff(a, b) < 0
VGt(a, b) == VLt(b, a)
VLe(a, b) == ~VGt(a, b)
VGe(a, b) == ~VLt(a, b)
VPos(v) == v.inf \/ v.n > 0

\* round half to even of n / 10^k
RoundDiv(n, k) ==
  LET p == Pow10(k)
      q == n \div p
      r == n % p
  IN  IF 2 * r > p \/ (2 * r = p /\ q % 2 = 1) THEN q + 1 ELSE q

\* f"{v:.3f}"
Fmt3(v) ==
  IF v.inf THEN Txt("inf")
  ELSE IF v.s <= 3
       THEN LET fr == IF v.s = 0 THEN <<>> ELSE Digits(FracPart(v))
            IN  Str(Digits(IntPart(v)) \o [i \in 1..(v.s - Len(fr)) |-> 0] \o fr
                      \o [i \in 1..(3 - v.s) |-> 0], 3)
       ELSE LET r == RoundDiv(v.n, v.s - 3)
                fr == Digits(r % 1000)
            IN  Str(Digits(r \div 1000) \o [i \in 1..(3 - Len(fr)) |-> 0] \o fr, 3)

\* a data point (DonneeEnvironnementale); confiance in hundredths
Donnee(champ, valeur, unite, confiance) ==
  [champ |-> champ, valeur |-> valeur, unite |-> unite, confiance |-> confiance]

\* --------------------------------------------------------------- STEGStrategy
StartsDigit(tok) == tok.k \in {"n", "d", "mal", "big"}
EndsDigit(tok) == tok.k \in {"n", "d", "mal", "big"} \/ TrailRun(tok) # <<>>

\* r'quantit[ée]\s*(?:\(\d\))?\s+(\d+)' matches at token i
QuantiteAt(text, i) ==
  IsW(text[i], {"Quantite (1)"}) /\ i < Len(text) /\ StartsDigit(text[i + 1])

\* r'(\d+)\s*kwh' matches with the unit at token i
KwhAt(text, i) == IsW(text[i], {"kWh"}) /\ i > 1 /\ EndsDigit(text[i - 1])

\* r'(\d{4,7})\s+(\d{4,7})' matches at tokens i, i + 1
IndexRunEnd(tok) == IF tok.k = "big" THEN Ones(7) ELSE LastDigits(TrailRun(tok), 7)
IndexRunStart(tok) == IF tok.k = "big" THEN Ones(7) ELSE FirstDigits(LeadRun(tok), 7)
IndexPairAt(zone, i) ==
  i < Len(zone) /\ Len(IndexRunEnd(zone[i])) >= 4 /\ Len(IndexRunStart(zone[i + 1])) >= 4

Abs(x) == IF x < 0 THEN -x ELSE x

\* the candidates of source 1 and of source 2, in text order
RECURSIVE QuantiteCandidates(_, _)
QuantiteCandidates(text, i) ==
  IF i > Len(text) THEN <<>>
  ELSE (IF QuantiteAt(text, i) /\ IntInRange(LeadRun(text[i + 1]), 1, 100000)
          THEN <<DigVal(Strip0(LeadRun(text[i + 1])))>> ELSE <<>>)
       \o QuantiteCandidates(text, i + 1)

RECURSIVE KwhCandidates(_, _)
KwhCandidates(text, i) ==
  IF i > Len(text) THEN <<>>
  ELSE (IF KwhAt(text, i) /\ IntInRange(TrailRun(text[i - 1]), 1, 100000)
          THEN <<DigVal(Strip0(TrailRun(text[i - 1])))>> ELSE <<>>)
       \o KwhCandidates(text, i + 1)

IndexCandidates(text, zones) ==
  LET zone == IF zones.electricite # <<>> THEN zones.electricite ELSE text
      i == First({j \in 1..Len(zone) : IndexPairAt(zone, j)})
      diff == Abs(DigVal(IndexRunEnd(zone[i])) - DigVal(IndexRunStart(zone[i + 1])))
  IN  IF i # 0 /\ 1 <= diff /\ diff <= 100000 THEN <<diff>> ELSE <<>>

\* the candidate of the first source that has one, whatever the others say
FirstCandidate(values) == values[1]

\* Counter(values).most_common(1): the most frequent value, the first seen of them
MostCommon(values) ==
  LET count(v) == Cardinality({j \in 1..Len(values) : values[j] = v})
  IN  values[First({i \in 1..Len(values) :
                      \A j \in 1..Len(values) : count(values[j]) <= count(values[i])})]

ElecCandidates(text, zones) ==
  QuantiteCandidates(text, 1) \o KwhCandidates(text, 1) \o IndexCandidates(text, zones)

\* int(m.group(1)) of a digit run longer than the interpreter's limit raises
\* ValueError, which _extract_steg_electricity does not catch
steg_electricity_raises(text) ==
  \/ \E i \in 1..Len(text) : QuantiteAt(text, i) /\ text[i + 1].k = "big"
  \/ \E i \in 1..Len(text) : KwhAt(text, i) /\ text[i - 1].k = "big"

\* _extract_steg_electricity: 0 stands for None (a candidate is at least 1)
extract_steg_electricity(text, zones) ==
  LET c == ElecCandidates(text, zones)
  IN  IF c = <<>> THEN 0 ELSE MostCommon(c)

\* r'[Rr][ée]f[ée]rence\s*:\s*([\d\s]+\d)': the label at token i, the digit groups
\* after it
ReferenceAt(text, i) ==
  IsW(text[i], {"Reference :"}) /\ i < Len(text) /\ StartsDigit(text[i + 1])

PureInt(tok) == (tok.k = "n" /\ tok.f = 0) \/ tok.k = "big"

RECURSIVE DigitGroups(_, _)
DigitGroups(text, j) ==
  IF j > Len(text) \/ ~StartsDigit(text[j]) THEN <<>>
  ELSE IF PureInt(text[j]) THEN <<text[j]>> \o DigitGroups(text, j + 1)
  ELSE <<N(LeadRun(text[j]), 0)>>

ReferenceGroups(text) ==
  LET i == First({j \in 1..Len(text) : ReferenceAt(text, j)})
  IN  IF i = 0 THEN <<>> ELSE DigitGroups(text, i + 1)

\* int(part) for part in re.findall(r'\d+', ...): raises on the long run
steg_gas_raises(text) ==
  \E g \in 1..Len(ReferenceGroups(text)) : ReferenceGroups(text)[g].k = "big"

\* ref_numbers, each number by its significant digits
RefNumbers(text) ==
  {Strip0(ReferenceGroups(text)[g].ds) : g \in 1..Len(ReferenceGroups(text))}

\* the longest run of letterless tokens after token i ends at this token
RECURSIVE LetterlessEnd(_, _)
LetterlessEnd(text, i) ==
  IF i < Len(text) /\ NoLetter(text[i + 1]) THEN LetterlessEnd(text, i + 1) ELSE i

\* r'\bgaz\b[^a-z]*\d{2,5}\s+\d{3,7}\s+\d{3,7}' after the word gaz ending token i
GazIndexLineAt(text, i) ==
  /\ EndsGazWord(text[i])
  /\ \E a \in (i + 1)..(LetterlessEnd(text, i) - 2) :
       /\ (text[a].k = "big" \/ Len(TrailRun(text[a])) >= 2)
       /\ text[a + 1].k = "n" /\ text[a + 1].f = 0
       /\ Len(text[a + 1].ds) >= 3 /\ Len(text[a + 1].ds) <= 7
       /\ (text[a + 2].k = "big" \/ Len(LeadRun(text[a + 2])) >= 3)

\* r'gaz\b[^a-z]*redevance'
GazRedevanceAt(text, i) ==
  /\ EndsGazWord(text[i])
  /\ LetterlessEnd(text, i) < Len(text)
  /\ IsW(text[LetterlessEnd(text, i) + 1], {"Redevances Fixes"})

\* has_gaz_conso: r'gaz[\s-]*natur|sg\d{6,}|...'
has_gaz_conso(text) ==
  \E i \in 1..Len(text) :
    \/ IsW(text[i], {"GAZ-NATUR", "gaz naturel", "SG14040520S607"})
    \/ GazIndexLineAt(text, i)
    \/ GazRedevanceAt(text, i)

\* re.findall(r'(?<![.\d])(\d{2,5})(?!\.\d)', token)
GasRuns(tok) ==
  CASE tok.k = "n" ->
         LET L == Len(tok.ds) - tok.f
         IN  IF tok.f = 0
             THEN (IF L >= 2 THEN <<FirstDigits(tok.ds, 5)>> ELSE <<>>)
             ELSE IF L >= 6 THEN <<FirstDigits(tok.ds, 5)>>
             ELSE IF L >= 3 THEN <<FirstDigits(tok.ds, L - 1)>>
             ELSE <<>>
    [] tok.k = "d" -> <<SubSeq(tok.ds, 1, 4), SubSeq(tok.ds, 5, 6), SubSeq(tok.ds, 7, 8)>>
    [] tok.k = "big" -> <<Ones(5)>>
    [] tok.k = "w" /\ tok.w = "SG14040520S607" -> <<<<1, 4, 0, 4, 0>>, <<6, 0, 7>>>>
    [] tok.k = "w" /\ tok.w = "mars 2022" -> <<<<2, 0, 2, 2>>>>
    [] OTHER -> <<>>

RECURSIVE GasCandidates(_)
GasCandidates(zone) ==
  IF zone = <<>> THEN <<>> ELSE GasRuns(Head(zone)) \o GasCandidates(Tail(zone))

\* the search without "cv not in exclude"
find_gas_quantity_no_exclusion(zone, exclude) ==
  LET c == GasCandidates(zone)
      ok(i) == 50 <= DigVal(c[i]) /\ DigVal(c[i]) < 2000
      i == First({j \in 1..Len(c) : ok(j)})
  IN  IF i = 0 THEN 0 ELSE DigVal(c[i])

\* _find_gas_quantity_in_zone: 0 stands for None (a result is at least 50)
find_gas_quantity_in_zone(zone, exclude) ==
  LET c == GasCandidates(zone)
      ok(i) == LET cv == DigVal(c[i])
               IN  /\ 50 <= cv /\ cv <= 2000
                   /\ ~(2000 <= cv /\ cv <= 2100)
                   /\ Strip0(c[i]) \notin exclude
      i == First({j \in 1..Len(c) : ok(j)})
  IN  IF i = 0 THEN 0 ELSE DigVal(c[i])

\* the search without the test of has_gaz_conso
extract_steg_gas_unsignalled(text, zones) ==
  LET exclude == RefNumbers(text)
      r1 == find_gas_quantity_in_zone(zones.gaz, exclude)
      section == BetweenTotals(text, TotalGazAt)
      r2 == find_gas_quantity_in_zone(section.zone, exclude)
  IN  IF zones.gaz # <<>> /\ r1 # 0 THEN r1
      ELSE IF section.found /\ r2 # 0 THEN r2
      ELSE 0

\* a strategy that never reports gas
extract_steg_gas_never(text, zones) == 0

\* _extract_steg_gas: 0 stands for None
extract_steg_gas(text, zones) ==
  LET exclude == RefNumbers(text)
      r1 == find_gas_quantity_in_zone(zones.gaz, exclude)
      section == BetweenTotals(text, TotalGazAt)
      r2 == find_gas_quantity_in_zone(section.zone, exclude)
  IN  IF ~has_gaz_conso(text) THEN 0
      ELSE IF zones.gaz # <<>> /\ r1 # 0 THEN r1
      ELSE IF section.found /\ r2 # 0 THEN r2
      ELSE 0

\* the extraction with the electricity reading held for certain
steg_extract_consumption_sure(text, zones) ==
  LET elec == extract_steg_electricity(text, zones)
      gaz == extract_steg_gas(text, zones)
  IN  (IF elec # 0
         THEN <<Donnee("Energie consommee (electricite)", Str(Digits(elec), 0), "kWh", 100)>>
         ELSE <<>>)
      \o (IF gaz # 0
            THEN <<Donnee("Volume consomme (gaz)", Str(Digits(gaz), 0), "m3", 85)>>
            ELSE <<>>)

\* STEGStrategy.extract_consumption
steg_extract_consumption(text, zones) ==
  LET elec == extract_steg_electricity(text, zones)
      gaz == extract_steg_gas(text, zones)
  IN  (IF elec # 0
         THEN <<Donnee("Energie consommee (electricite)", Str(Digits(elec), 0), "kWh", 90)>>
         ELSE <<>>)
      \o (IF gaz # 0
            THEN <<Donnee("Volume consomme (gaz)", Str(Digits(gaz), 0), "m3", 85)>>
            ELSE <<>>)

\* Optional[float]
None == [some |-> FALSE, v |-> Val(0, 0)]
Some(v) == [some |-> TRUE, v |-> v]

\* float(m.group(1).replace(",", ".")) for the group [\d.,]+ at the start of a
\* token: err stands for ValueError
FloatOfToken(tok) ==
  CASE tok.k = "n" -> [err |-> FALSE, v |-> ParseNum(tok.ds, tok.f)]
    [] tok.k = "d" -> [err |-> FALSE, v |-> ParseNum(SubSeq(tok.ds, 1, 4), 0)]
    [] tok.k = "big" -> [err |-> FALSE, v |-> Inf]
    [] OTHER -> [err |-> TRUE, v |-> Val(0, 0)]

\* a token that is a number with exactly three digits after the '.'
\* ([\d]+[.,]\d{3} up to the end of the token)
Dec3(tok) == tok.k = "n" /\ tok.f = 3

StartsMontant(tok) == IsW(tok, {"Montant a payer", "MONTANT TOTAL", "Montant"})
MontantAPayer(tok) == IsW(tok, {"Montant a payer"})

\* r'(?:dinars?|millimes?)'
HasDinars(tok) == IsW(tok, {"SEPT CENTS SOIXANTE-DIX-SEPT DINARS ZERO MLLIMES"})

\* the value at the first match of a pattern: matches is the set of positions
\* where it matches, value(i) what float() makes of its group
FirstMatch(matches, value(_)) ==
  IF matches = {} THEN [matched |-> FALSE, err |-> FALSE, v |-> Val(0, 0)]
  ELSE [matched |-> TRUE, err |-> value(First(matches)).err, v |-> value(First(matches)).v]

Parsed(v) == [err |-> FALSE, v |-> v]

\* for pat in patterns: first match; return float(...), or continue on ValueError
RECURSIVE FirstParsed(_)
FirstParsed(ms) ==
  IF ms = <<>> THEN None
  ELSE IF Head(ms).matched /\ ~Head(ms).err THEN Some(Head(ms).v)
  ELSE FirstParsed(Tail(ms))

\* STEGStrategy._extract_montant_a_payer
extract_montant_a_payer(text) ==
  LET n == Len(text)
      after(i) == SkipColons(text, i + 1)
      \* montant\s*(?:à|a)\s*payer[:\s]*([\d]+[.,]\d{3})
      p1 == {i \in 1..n : MontantAPayer(text[i]) /\ after(i) <= n
                           /\ text[after(i)].k = "n" /\ text[after(i)].f >= 3}
      v1(i) == LET t == text[after(i)]
               IN  Parsed(ParseNum(SubSeq(t.ds, 1, Len(t.ds) - t.f + 3), 3))
      \* ([\d]+[.,]\d{3})\s*(?:,?\s*montant\s*(?:à|a)\s*payer)
      p2 == {i \in 1..(n - 1) : Dec3(text[i]) /\ MontantAPayer(text[i + 1])}
      v2(i) == Parsed(ParseNum(text[i].ds, 3))
      \* ([\d]+[.,]\d{3})\s+[A-ZÀ-Ÿ\s.,\-]+(?:dinars?|millimes?)[A-ZÀ-Ÿ\s.,\-]*montant\s*(?:à|a)\s*payer
      p3 == {i \in 1..n : /\ Dec3(text[i])
                          /\ \E k \in (i + 2)..n :
                               /\ MontantAPayer(text[k])
                               /\ \A j \in (i + 1)..(k - 1) : IsW(text[j], AlphaWords)
                               /\ \E j \in (i + 1)..(k - 1) : HasDinars(text[j])}
      \* montant\s*(?:à|a)\s*payer[:\s]*([\d.,]+)
      p4 == {i \in 1..n : MontantAPayer(text[i]) /\ after(i) <= n
                           /\ StartsDigit(text[after(i)])}
      v4(i) == FloatOfToken(text[after(i)])
  IN  FirstParsed(<<FirstMatch(p1, v1), FirstMatch(p2, v2), FirstMatch(p3, v2),
                    FirstMatch(p4, v4), FirstMatch(p2, v2)>>)

\* STEGStrategy._extract_bulletin_versement
extract_bulletin_versement(text, zones) ==
  LET pied == IF zones.pied # <<>> THEN zones.pied ELSE text
      n == Len(pied)
      after(i) == SkipColons(pied, i + 1)
      pair(j) == j < n /\ Dec3(pied[j]) /\ StartsMontant(pied[j + 1])
      label(k) == IsW(pied[k], {"Montant"}) /\ after(k) <= n /\ StartsDigit(pied[after(k)])
      b == First({i \in 1..n : BulletinAt(pied, i)})
      \* bulletin\s*de\s*versement.*?(\d+[.,]\d{3})\s*montant
      p1 == IF b = 0 THEN {} ELSE {j \in (b + 1)..n : pair(j)}
      v1(j) == Parsed(ParseNum(pied[j].ds, 3))
      \* bulletin\s*de\s*versement.*?montant[:\s]*([\d.,]+)
      p2 == IF b = 0 THEN {} ELSE {k \in (b + 1)..n : label(k)}
      v2(k) == FloatOfToken(pied[after(k)])
      \* (\d+[.,]\d{3})\s+montant\b
      p3 == {j \in 1..n : pair(j)}
  IN  FirstParsed(<<FirstMatch(p1, v1), FirstMatch(p2, v2), FirstMatch(p3, v1)>>)

\* the group [\d]+[.,]\d+ at the start / at the end of a token
DecStart(tok) ==
  CASE tok.k = "n" /\ tok.f >= 1 -> Some(ParseNum(tok.ds, tok.f))
    [] tok.k = "mal" -> Some(Val(12, 1))
    [] OTHER -> None
DecEnd(tok) ==
  CASE tok.k = "n" /\ tok.f >= 1 -> Some(ParseNum(tok.ds, tok.f))
    [] tok.k = "mal" -> Some(Val(23, 1))
    [] OTHER -> None

\* STEGStrategy._extract_montant_total
extract_montant_total(text) ==
  LET n == Len(text)
      after(i) == SkipColons(text, i + 1)
      \* montant\s*total[:\s]*([\d]+[.,]\d+)
      p1 == {i \in 1..n : IsW(text[i], {"MONTANT TOTAL"}) /\ after(i) <= n
                           /\ DecStart(text[after(i)]).some}
      v1(i) == Parsed(DecStart(text[after(i)]).v)
      \* ([\d]+[.,]\d+)\s*montant\s*total
      p2 == {i \in 1..(n - 1) : DecEnd(text[i]).some /\ MontantTotalAt(text, i + 1)}
      v2(i) == Parsed(DecEnd(text[i]).v)
  IN  FirstParsed(<<FirstMatch(p1, v1), FirstMatch(p2, v2)>>)

\* re.search(label_re + r'[:\s]*([\d.,]+)', text): the sub-total after a label
SousTotal(text, label, word) ==
  LET n == Len(text)
      \* the label ends with the token: "Total Gaz", or "MONTANT TOTAL" then "Gaz"
      LabelEnd(i) == IF IsW(text[i], {label}) THEN i
                     ELSE IF /\ IsW(text[i], {"MONTANT TOTAL"}) /\ i < n
                             /\ IsW(text[i + 1], {word}) THEN i + 1
                     ELSE 0
      after(i) == SkipColons(text, LabelEnd(i) + 1)
      p == {i \in 1..n : LabelEnd(i) > 0 /\ after(i) <= n /\ StartsDigit(text[after(i)])}
      v(i) == FloatOfToken(text[after(i)])
  IN  FirstMatch(p, v)

\* a stage that does not look at the keys seen
AddAmount_always(donnees, opt, champ, confiance) ==
  IF opt.some THEN Append(donnees, Donnee(champ, Fmt3(opt.v), "DT", confiance))
  ELSE donnees

\* one stage of extract_amounts: append the data point unless its key was seen
AddAmount(donnees, opt, champ, confiance) ==
  IF opt.some /\ \A i \in 1..Len(donnees) : donnees[i].valeur # Fmt3(opt.v)
  THEN Append(donnees, Donnee(champ, Fmt3(opt.v), "DT", confiance))
  ELSE donnees

\* the sub-total stage: try float(); key not in seen and fv > 0.5
AddSousTotal(donnees, m, champ) ==
  IF m.matched /\ ~m.err /\ VGt(m.v, Val(5, 1))
  THEN AddAmount(donnees, Some(m.v), champ, 70)
  ELSE donnees

\* abs(val - val2) < 0.01 (inf - inf is nan, and no comparison with nan holds)
Agree(a, b) ==
  /\ ~a.inf /\ ~b.inf
  /\ Abs(SignedDiff(a, b)) * 100 < Pow10(Max(a.s, b.s))

\* min(1.0, d.confiance + 0.05) on the "Montant a payer" data points
Boost(donnees) ==
  [i \in 1..Len(donnees) |->
     IF donnees[i].champ = "Montant a payer"
     THEN [donnees[i] EXCEPT !.confiance = Min(100, @ + 5)]
     ELSE donnees[i]]

\* STEGStrategy.extract_amounts
steg_extract_amounts(text, zones) ==
  LET val == extract_montant_a_payer(text)
      val2 == extract_bulletin_versement(text, zones)
      val3 == extract_montant_total(text)
      d1 == AddAmount(<<>>, val, "Montant a payer", 95)
      d2 == AddAmount(d1, val2, "Montant bulletin", 90)
      d3 == AddAmount(d2, val3, "Montant total HT", 80)
      d4 == AddSousTotal(d3, SousTotal(text, "Total Electricite", "Electricite"), "Sous-total electricite")
      d5 == AddSousTotal(d4, SousTotal(text, "Total Gaz", "Gaz"), "Sous-total gaz")
      d6 == AddSousTotal(d5, SousTotal(text, "Total Services", "SERVICES"), "Sous-total services")
  IN  IF val.some /\ VPos(val.v) /\ val2.some /\ VPos(val2.v) /\ Agree(val.v, val2.v)
      THEN Boost(d6) ELSE d6

\* STEGStrategy.extract_period and _extract_period_generic.  A period is the
\* sequence of its parts: <<>> for None, <<a, b>> for "a au b", <<a>> for a alone.
IsDate(tok) == tok.k = "d"
\* a < b on the two strings: dates of one script compare as their digits do, and
\* every ASCII digit sorts before every Arabic-Indic one
DateLt(a, b) == IF a.w = b.w THEN DigVal(a.ds) < DigVal(b.ds) ELSE a.w = ""

\* sorted(groups[:2]) of two strings
SortedPair(a, b) == IF DateLt(b, a) THEN <<b, a>> ELSE <<a, b>>

\* r'(\d{4}-\d{2}-\d{2})\s*[:\s]*(?:au)?\s*[:\s]*(\d{4}-\d{2}-\d{2})': the second
\* date of a match whose first date is token i, 0 if there is none
SecondDate(text, i) ==
  LET a == SkipColons(text, i + 1)
      b == IF a <= Len(text) /\ IsW(text[a], {"au"}) THEN SkipColons(text, a + 1) ELSE a
  IN  IF a <= Len(text) /\ IsDate(text[a]) THEN a
      ELSE IF b <= Len(text) /\ IsDate(text[b]) THEN b
      ELSE 0

\* of the six patterns, the ISO pair and the month-name one match tokens of the
\* vocabulary; they are tried in this order
extract_period_generic(text) ==
  LET iso == First({i \in 1..Len(text) : IsDate(text[i]) /\ SecondDate(text, i) # 0})
      mois == First({i \in 1..Len(text) : IsW(text[i], {"mars 2022"})})
  IN  IF iso # 0 THEN SortedPair(text[iso], text[SecondDate(text, iso)])
      ELSE IF mois # 0 THEN <<text[mois]>>
      ELSE <<>>

\* re.findall(r'(\d{4}-\d{2}-\d{2})', text)
RECURSIVE IsoDates(_)
IsoDates(text) ==
  IF text = <<>> THEN <<>>
  ELSE (IF IsDate(Head(text)) THEN <<Head(text)>> ELSE <<>>) \o IsoDates(Tail(text))

\* the period from the first two dates in reading order: no set, no sorted
steg_period_unsorted(text) ==
  LET dates == IsoDates(text)
  IN  IF Len(dates) >= 2 THEN <<dates[1], dates[2]>> ELSE extract_period_generic(text)

steg_extract_period(text) ==
  LET dates == IsoDates(text)
      unique == {dates[i] : i \in 1..Len(dates)}
      lo == CHOOSE a \in unique : \A b \in unique : ~DateLt(b, a)
      next == CHOOSE a \in unique \ {lo} : \A b \in unique \ {lo} : ~DateLt(b, a)
  IN  IF Len(dates) >= 2
      THEN (IF Cardinality(unique) >= 2 THEN <<lo, next>> ELSE <<dates[1], dates[1]>>)
      ELSE extract_period_generic(text)

\* the string of a digit run
RunStr(tok, run) == IF tok.k = "big" THEN Txt("1x5000") ELSE Str(run, 0)

\* ''.join of the digit groups of the reference
RECURSIVE JoinGroups(_)
JoinGroups(groups) ==
  IF groups = <<>> THEN Str(<<>>, 0)
  ELSE LET rest == JoinGroups(Tail(groups))
       IN  IF Head(groups).k = "big" \/ rest.txt # "" THEN Txt("1x5000")
           ELSE Str(Head(groups).ds \o rest.ds, 0)

NoStr == Txt("None")

\* r'(?:d[ée]pannage|district)\s*[:\s]*(\d+)' and r'poste\s*(\d+)'
LabelNumberAt(text, i, labels) ==
  IsW(text[i], labels) /\ SkipColons(text, i + 1) <= Len(text)
    /\ StartsDigit(text[SkipColons(text, i + 1)])

\* STEGStrategy.extract_reference: <<ref_facture, ref_client>>
steg_extract_reference(text) ==
  LET groups == ReferenceGroups(text)
      d == First({i \in 1..Len(text) : LabelNumberAt(text, i, {"Depannage", "District"})})
      p == First({i \in 1..(Len(text) - 1) :
                    IsW(text[i], {"poste"}) /\ StartsDigit(text[i + 1])})
      num(i) == LET t == text[SkipColons(text, i + 1)] IN RunStr(t, LeadRun(t))
  IN  <<IF groups = <<>> THEN NoStr ELSE JoinGroups(groups),
        IF d # 0 THEN num(d)
        ELSE IF p # 0 THEN [num(p) EXCEPT !.txt = "Poste " \o @]
        ELSE NoStr>>

\* the characters [\w\d/\-]+ a token begins with
HeadOf(tok) ==
  CASE tok.k = "n" -> Str(LeadRun(tok), 0)
    [] tok.k = "d" -> [ds |-> tok.ds, f |-> 0, txt |-> "date"]
    [] tok.k = "mal" -> Str(<<1>>, 0)
    [] tok.k = "big" -> Txt("1x5000")
    [] tok.w \in {":", "&"} -> NoStr
    [] tok.w = "Shell Energy" -> Txt("Shell")
    [] tok.w \in {"Total Electricite", "Total Gaz", "Total Services",
                  "Total Consommation & Services"} -> Txt("Total")
    [] tok.w = "Quantite (1)" -> Txt("Quantite")
    [] tok.w = "Reference :" -> Txt("Reference")
    [] tok.w \in {"Montant a payer", "MONTANT TOTAL"} -> Txt("Montant")
    [] tok.w = "Bulletin de versement" -> Txt("Bulletin")
    [] tok.w \in {"consommation electrique", "tarif electricite", "puissance souscrite",
                  "heures pleines", "heures creuses", "gaz naturel", "compteur gaz",
                  "Societe Tunisienne de l Electricite et du Gaz",
                  "FACTURE INTERMEDIAIRE", "Redevances Fixes",
                  "SEPT CENTS SOIXANTE-DIX-SEPT DINARS ZERO MLLIMES", "mars 2022"} ->
         Txt("first word of " \o tok.w)
    [] OTHER -> Txt(tok.w)

\* _extract_references_generic: r'(?:r[ée]f[ée]rence|...)\s*[:\s]*([\w\d/\-]+)' is
\* the one pattern with a label of the vocabulary; no token holds a customer label
extract_references_generic(text) ==
  LET next(i) == SkipColons(text, i + 1)
      r == First({i \in 1..Len(text) :
                    /\ IsW(text[i], {"Reference :"}) /\ next(i) <= Len(text)
                    /\ HeadOf(text[next(i)]) # NoStr})
  IN  <<IF r = 0 THEN NoStr ELSE HeadOf(text[next(r)]), NoStr>>

\* _extract_address_generic: no token of the vocabulary holds an address marker
\* (adresse, address, rue, avenue, boulevard, bd, impasse)
extract_address_generic(text) == NoStr

\* ------------------------------------------------ runs of [\d\s.,] characters
PureNum(tok) == tok.k \in {"n", "mal", "big"}

\* finditer yields non-overlapping matches: the digit a unit token ends with
\* ("m3", "CO2") is not part of the next run once a match has consumed the token
RECURSIVE BackRun(_, _, _)
RECURSIVE Consumed(_, _, _)
Consumed(text, p, mode) ==
  CASE mode = "m3" -> IsW(text[p], {"m3"}) /\ p > 1
    [] mode = "sonede" -> IsW(text[p], {"m3"}) /\ BackRun(text, p, mode) # <<>>
    [] mode = "co2" -> IsW(text[p], {"CO2"}) /\ p >= 3 /\ IsW(text[p - 1], {"kg"})
    [] OTHER -> FALSE

\* the pieces of the run ([\d\s.,]+) that ends right before token u: the numeric
\* tokens before u and the digits the token before them ends with
BackRun(text, u, mode) ==
  IF u <= 1 THEN <<>>
  ELSE IF PureNum(text[u - 1]) THEN BackRun(text, u - 1, mode) \o <<text[u - 1]>>
  ELSE IF TrailRun(text[u - 1]) # <<>> /\ ~Consumed(text, u - 1, mode)
       THEN <<N(TrailRun(text[u - 1]), 0)>>
  ELSE <<>>

\* the pieces of the run that starts at token j: the numeric tokens from j and the
\* digits the token after them starts with
RECURSIVE FwdRun(_, _)
FwdRun(text, j) ==
  IF j > Len(text) THEN <<>>
  ELSE IF PureNum(text[j]) THEN <<text[j]>> \o FwdRun(text, j + 1)
  ELSE IF LeadRun(text[j]) # <<>> THEN <<N(LeadRun(text[j]), 0)>>
  ELSE <<>>

\* its digits in order, with 10 standing for the 5000 ones of an oversized number
RECURSIVE RunDigits(_)
RunDigits(pieces) ==
  IF pieces = <<>> THEN <<>>
  ELSE (CASE Head(pieces).k = "n" -> Head(pieces).ds
          [] Head(pieces).k = "big" -> <<10>>
          [] OTHER -> <<>>) \o RunDigits(Tail(pieces))

\* the digits after the '.' in the run with the blanks removed
RECURSIVE RunFrac(_)
RunFrac(pieces) ==
  IF pieces = <<>> THEN 0
  ELSE IF Head(pieces).k = "n" /\ Head(pieces).f > 0
       THEN Head(pieces).f + Len(RunDigits(Tail(pieces)))
  ELSE RunFrac(Tail(pieces))

RunHasBig(pieces) == \E i \in 1..Len(pieces) : pieces[i].k = "big"

\* float(val) raises ValueError: no digit, or more than one '.'
RunErr(pieces) ==
  \/ pieces = <<>>
  \/ \E i \in 1..Len(pieces) : pieces[i].k = "mal"
  \/ Cardinality({i \in 1..Len(pieces) : pieces[i].k = "n" /\ pieces[i].f > 0}) > 1

\* val = group.replace(" ", "").replace(",", ".")
RunString(pieces) ==
  [ds |-> RunDigits(pieces), f |-> RunFrac(pieces),
   txt |-> IF RunHasBig(pieces) THEN "1x5000" ELSE ""]

\* float() of the digits ds with f of them after the '.': infinite when the 5000
\* ones belong to the integer part, and otherwise the digits up to them followed
\* by the first three of the ones
FloatDigits(ds, f) ==
  LET b == First({i \in 1..Len(ds) : ds[i] > 9})
  IN  IF b = 0 THEN ParseNum(ds, f)
      ELSE IF b <= Len(ds) - f THEN Inf
      ELSE ParseNum(SubSeq(ds, 1, b - 1) \o Ones(3), (b - 1) - (Len(ds) - f) + 3)

\* float(val)
RunVal(pieces) == FloatDigits(RunDigits(pieces), RunFrac(pieces))

\* lo <= float(val) <= 100000
RunInRange(pieces, lo) ==
  /\ ~RunVal(pieces).inf
  /\ Len(Strip0(RunDigits(pieces))) - RunFrac(pieces) <= 6
  /\ VGe(RunVal(pieces), lo) /\ VLe(RunVal(pieces), Val(100000, 0))

\* the tokens a unit pattern ends at
UnitAt(text, u, units) == IsW(text[u], units)

\* ----------------------------------------------------------- SONEDEStrategy
\* int(m.group(1)) of r'consommation[:\s]*(\d+)'
ConsoNumberAt(text, i) ==
  /\ IsW(text[i], {"CONSOMMATION"})
  /\ SkipColons(text, i + 1) <= Len(text)
  /\ StartsDigit(text[SkipColons(text, i + 1)])

\* r'(\d{3,8})\s+(\d{3,8})\s+(?:ancien|consommation)' at tokens i, i + 1, i + 2
SonedeIndexAt(text, i) ==
  /\ i + 2 <= Len(text)
  /\ Len(TrailRun(text[i])) >= 3 \/ text[i].k = "big"
  /\ text[i + 1].k = "n" /\ text[i + 1].f = 0
  /\ Len(text[i + 1].ds) >= 3 /\ Len(text[i + 1].ds) <= 8
  /\ IsW(text[i + 2], {"CONSOMMATION", "consommation electrique"})

SonedeRunEnd(tok) == IF tok.k = "big" THEN Ones(8) ELSE LastDigits(TrailRun(tok), 8)

sonede_first(text) ==
  First({u \in 1..Len(text) :
           /\ UnitAt(text, u, {"m3"}) /\ BackRun(text, u, "sonede") # <<>>
           /\ ~RunErr(BackRun(text, u, "sonede"))
           /\ RunInRange(BackRun(text, u, "sonede"), Val(1, 1))})

sonede_conso(text) == First({i \in 1..Len(text) : ConsoNumberAt(text, i)})

\* the uncaught int() of the second source
sonede_raises(text) ==
  /\ sonede_first(text) = 0 /\ sonede_conso(text) # 0
  /\ text[SkipColons(text, sonede_conso(text) + 1)].k = "big"

\* SONEDEStrategy.extract_consumption
sonede_extract_consumption(text) ==
  LET u == sonede_first(text)
      c == sonede_conso(text)
      ctok == text[SkipColons(text, c + 1)]
      x == First({i \in 1..Len(text) : SonedeIndexAt(text, i)})
      diff == Abs(DigVal(SonedeRunEnd(text[x])) - DigVal(text[x + 1].ds))
  IN  IF u # 0
      THEN <<Donnee("Volume consomme (eau)", RunString(BackRun(text, u, "sonede")), "m3", 85)>>
      ELSE IF c # 0 /\ IntInRange(LeadRun(ctok), 1, 100000)
      THEN <<Donnee("Volume consomme (eau)", Str(LeadRun(ctok), 0), "m3", 70)>>
      ELSE IF x # 0 /\ 1 <= diff /\ diff <= 100000
      THEN <<Donnee("Volume consomme (eau)", Str(Digits(diff), 0), "m3", 75)>>
      ELSE <<>>

\* ---------------------------------------------------------- GenericStrategy
Valeurs(donnees) == {donnees[i].valeur : i \in 1..Len(donnees)}

\* one finditer loop of r'([\d\s.,]+)\s*(unit)' from token u on: the value of
\* each unit token whose run parses, is at least lo (when ranged) and at most
\* 100000, and was not seen.  The labelled patterns of the same unit capture the
\* same run and so add nothing.
RECURSIVE UnitValues(_, _, _, _, _, _)
UnitValues(text, u, units, mode, ranged, lo) ==
  IF u > Len(text) THEN <<>>
  ELSE LET rest == UnitValues(text, u + 1, units, mode, ranged, lo)
           run == BackRun(text, u, mode)
       IN  IF /\ UnitAt(text, u, units) /\ ~RunErr(run)
              /\ ranged => RunInRange(run, lo)
           THEN <<RunString(run)>> \o SelectSeq(rest, LAMBDA v : v # RunString(run))
           ELSE rest

Points(values, champ, unite, conf) ==
  [i \in 1..Len(values) |-> Donnee(champ, values[i], unite, conf)]

\* r'quantit[ée]\s*(?:\(\d\))?\s+(\d+)' in the kWh loop
RECURSIVE QuantitePoints(_, _, _)
QuantitePoints(text, i, seen) ==
  IF i > Len(text) THEN <<>>
  ELSE LET tok == text[i + 1]
           val == RunStr(tok, LeadRun(tok))
       IN  IF /\ QuantiteAt(text, i) /\ tok.k # "big"
              /\ IntInRange(LeadRun(tok), 1, 100000) /\ val \notin seen
           THEN <<Donnee("Energie consommee", val, "kWh", 80)>>
                  \o QuantitePoints(text, i + 1, seen \cup {val})
           ELSE QuantitePoints(text, i + 1, seen)

\* _extract_consumption_generic
extract_consumption_generic(text) ==
  LET kwh == Points(UnitValues(text, 1, {"kWh"}, "any", TRUE, Val(1, 0)),
                   "Energie consommee", "kWh", 80)
      label == IF InLower("eau", text) \/ InLower("sonede", text)
               THEN "Volume consomme (eau)" ELSE "Volume consomme (gaz)"
      m3 == Points(UnitValues(text, 1, {"m3"}, "m3", FALSE, Val(0, 0)), label, "m3", 80)
      litres == Points(UnitValues(text, 1, {"litres"}, "any", TRUE, Val(1, 1)),
                       "Volume carburant", "litres", 75)
  IN  kwh \o QuantitePoints(text, 1, Valeurs(kwh)) \o m3 \o litres

\* float(val) >= 0.01
AmountOk(run) == ~RunErr(run) /\ VGe(RunVal(run), Val(1, 2))

\* the amount patterns with a label of the vocabulary: for each, the runs it
\* captures in text order
LabelRuns(text, labels) ==
  LET at == {i \in 1..Len(text) : IsW(text[i], labels)}
  IN  [n \in 1..Cardinality(at) |->
         LET i == CHOOSE j \in at : Cardinality({k \in at : k < j}) = n - 1
         IN  FwdRun(text, SkipColons(text, i + 1))]

\* r'([\d]+[.,]\d{3})\s+montant\s*(?:à|a)\s*payer'
BeforeMontantRuns(text) ==
  LET at == {i \in 2..Len(text) : MontantAPayer(text[i]) /\ Dec3(text[i - 1])}
  IN  [n \in 1..Cardinality(at) |->
         LET i == CHOOSE j \in at : Cardinality({k \in at : k < j}) = n - 1
         IN  <<text[i - 1]>>]

\* the runs a pattern 'label[:\s]*([\d\s.,]+)\s*(unit)' captures: the run after
\* the label, when the unit follows it
LabelUnitRuns(text, LabelEnd(_), units) ==
  LET ok(i) == LET j == LabelEnd(i)
                   run == FwdRun(text, j)
               IN  /\ j # 0
                   /\ \A k \in 1..Len(run) : PureNum(text[j + k - 1])
                   /\ j + Len(run) <= Len(text) /\ IsW(text[j + Len(run)], units)
      at == {i \in 1..Len(text) : ok(i)}
  IN  [n \in 1..Cardinality(at) |->
         LET i == CHOOSE j \in at : Cardinality({k \in at : k < j}) = n - 1
         IN  FwdRun(text, LabelEnd(i))]

\* one pattern's loop over its matches
RECURSIVE AmountPoints(_, _, _, _, _)
AmountPoints(runs, n, seen, champ, conf) ==
  IF n > Len(runs) THEN <<>>
  ELSE IF AmountOk(runs[n]) /\ RunString(runs[n]) \notin seen
  THEN <<Donnee(champ, RunString(runs[n]), "DT", conf)>>
         \o AmountPoints(runs, n + 1, seen \cup {RunString(runs[n])}, champ, conf)
  ELSE AmountPoints(runs, n + 1, seen, champ, conf)

\* _extract_amounts_generic (with _detect_devise, "DT" for every match here)
extract_amounts_generic(text) ==
  LET a1 == AmountPoints(LabelRuns(text, {"Montant a payer"}), 1, {},
                         "Montant a payer", 90)
      a2 == AmountPoints(BeforeMontantRuns(text), 1, Valeurs(a1),
                         "Montant a payer", 90)
      ttc(i) == IF /\ i < Len(text) /\ IsW(text[i], {"MONTANT TOTAL"})
                   /\ IsW(text[i + 1], {"TTC"})
                THEN SkipColons(text, i + 2) ELSE 0
      a4 == AmountPoints(LabelUnitRuns(text, ttc, {"dt"}), 1, Valeurs(a1 \o a2), "Total TTC", 85)
      a5 == AmountPoints(LabelRuns(text, {"MONTANT TOTAL"}), 1,
                         Valeurs(a1 \o a2 \o a4), "Montant total", 80)
      montant(i) == IF IsW(text[i], {"Montant"}) THEN SkipColons(text, i + 1) ELSE 0
      a6 == AmountPoints(LabelUnitRuns(text, montant, {"dt"}), 1,
                         Valeurs(a1 \o a2 \o a4 \o a5), "Montant facture", 75)
  IN  a1 \o a2 \o a4 \o a5 \o a6

\* _extract_co2_direct: declared emissions, r'co2[:\s]*([\d\s.,]+)\s*(kg|...)' and
\* r'([\d\s.,]+)\s*(kg|...)\s*(?:de\s+)?(?:co2|...)'
RECURSIVE DeclaredPoints(_, _)
DeclaredPoints(runs, n) ==
  IF n > Len(runs) THEN <<>>
  ELSE (IF RunErr(runs[n]) THEN <<>>
        ELSE <<Donnee("Emissions CO2 (declarees)", RunString(runs[n]), "kg CO2", 90)>>)
       \o DeclaredPoints(runs, n + 1)

extract_co2_direct(text) ==
  LET label(i) == IF IsW(text[i], {"CO2"}) THEN SkipColons(text, i + 1) ELSE 0
      at == {u \in 2..(Len(text) - 1) : IsW(text[u], {"kg"}) /\ IsW(text[u + 1], {"CO2"})}
      before == [n \in 1..Cardinality(at) |->
                   LET u == CHOOSE j \in at : Cardinality({k \in at : k < j}) = n - 1
                   IN  BackRun(text, u, "co2")]
  IN  DeclaredPoints(LabelUnitRuns(text, label, {"kg"}), 1) \o DeclaredPoints(before, 1)

\* ------------------------------------------------------------ CO2 combined
\* a computed float: ip + fp / 10^s with 0 <= fp < 10^s, or inf
Dec(ip, fp, s) == [inf |-> FALSE, ip |-> ip, fp |-> fp, s |-> s]
DecInf == [inf |-> TRUE, ip |-> 0, fp |-> 0, s |-> 0]
DecZero == Dec(0, 0, 0)

\* a + b
DecAdd(a, b) ==
  IF a.inf \/ b.inf THEN DecInf
  ELSE LET S == Max(a.s, b.s)
           fp == a.fp * Pow10(S - a.s) + b.fp * Pow10(S - b.s)
       IN  Dec(a.ip + b.ip + fp \div Pow10(S), fp % Pow10(S), S)

\* val * (F / 10^fd)
DecMul(val, F, fd) ==
  IF val.inf THEN DecInf
  ELSE LET A == IntPart(val) * F
           num == (A % Pow10(fd)) * Pow10(val.s) + FracPart(val) * F
           S == val.s + fd
       IN  Dec(A \div Pow10(fd) + num \div Pow10(S), num % Pow10(S), S)

\* round(x, 3)
Round3(x) ==
  IF x.inf THEN DecInf
  ELSE IF x.s <= 3 THEN Dec(x.ip, x.fp * Pow10(3 - x.s), 3)
  ELSE LET r == RoundDiv(x.fp, x.s - 3)
       IN  Dec(x.ip + r \div 1000, r % 1000, 3)

DecIsZero(x) == ~x.inf /\ x.ip = 0 /\ x.fp = 0

\* str(x) of a float rounded to three decimals: at least one decimal is printed
RECURSIVE StripTrailing0(_)
StripTrailing0(ds) ==
  IF Len(ds) > 1 /\ ds[Len(ds)] = 0 THEN StripTrailing0(SubSeq(ds, 1, Len(ds) - 1)) ELSE ds

FloatStr(x) ==
  IF x.inf THEN Txt("inf")
  ELSE LET fr == Digits(x.fp)
           frac == StripTrailing0([i \in 1..(3 - Len(fr)) |-> 0] \o fr)
       IN  Str(Digits(x.ip) \o frac, Len(frac))

\* float(d.valeur): err stands for ValueError
FloatOf(valeur) ==
  IF valeur.txt = "inf" THEN [err |-> FALSE, v |-> Inf]
  ELSE IF valeur.txt = "1x5000"
  THEN [err |-> FALSE, v |-> IF valeur.ds = <<>> THEN Inf ELSE FloatDigits(valeur.ds, valeur.f)]
  ELSE IF valeur.txt # "" \/ valeur.ds = <<>> THEN [err |-> TRUE, v |-> Val(0, 0)]
  ELSE [err |-> FALSE, v |-> ParseNum(valeur.ds, valeur.f)]

\* EMISSION_FACTORS: the factor as <<numerator, decimals>>, and its source
Facteur(type) ==
  CASE type = "electricite" -> <<475, 3>>
    [] type = "gaz_naturel" -> <<20, 1>>
    [] type = "eau" -> <<344, 3>>
    [] type = "essence" -> <<231, 2>>
    [] type = "diesel" -> <<268, 2>>
    [] type = "gpl" -> <<166, 2>>

Source(type) ==
  CASE type = "electricite" -> "ANME / IEA 2024 - mix electrique Tunisie"
    [] type = "eau" -> "Water UK / ADEME 2024 - traitement + distribution"
    [] OTHER -> "ADEME Base Carbone 2024"

InSeq(x, seq) == \E i \in 1..Len(seq) : seq[i] = x

\* "gaz" in d.champ.lower(), "eau" in d.champ.lower()
ChampHas(champ, part) ==
  CASE part = "gaz" ->
         champ \in {"Volume consomme (gaz)", "Sous-total gaz", "Emissions CO2 (gaz_naturel)"}
    [] part = "eau" -> champ \in {"Volume consomme (eau)", "Emissions CO2 (eau)"}
    [] part = "payer" -> champ = "Montant a payer"
    [] part = "montant" ->
         champ \in {"Montant a payer", "Montant bulletin", "Montant total HT",
                    "Montant total", "Montant facture"}
    [] part = "declar" -> champ = "Emissions CO2 (declarees)"
    [] OTHER -> FALSE

\* the fuel the litres are counted as: the first of essence, diesel, gpl in
\* types_energie, "essence" by default
CarbType(types) ==
  LET at == {i \in 1..Len(types) : types[i] \in {"essence", "diesel", "gpl"}}
  IN  IF at = {} THEN "essence" ELSE types[First(at)]

\* the branch of the loop body a data point takes, "" for none
Co2Type(d, types) ==
  IF d.unite = "kWh" /\ InSeq("electricite", types) THEN "electricite"
  ELSE IF d.unite = "m3" /\ ChampHas(d.champ, "gaz") THEN "gaz_naturel"
  ELSE IF d.unite = "m3" /\ ChampHas(d.champ, "eau") THEN "eau"
  ELSE IF d.unite = "litres" THEN CarbType(types)
  ELSE ""

\* the unrounded co2 of a data point
Co2Of(d, types) ==
  DecMul(FloatOf(d.valeur).v, Facteur(Co2Type(d, types))[1], Facteur(Co2Type(d, types))[2])

Counted(d, types) ==
  Co2Type(d, types) # "" /\ ~FloatOf(d.valeur).err /\ VPos(FloatOf(d.valeur).v)

\* the loop of _calculate_co2_combined: the detail entries
RECURSIVE Co2Detail(_, _)
Co2Detail(donnees, types) ==
  IF donnees = <<>> THEN <<>>
  ELSE LET d == Head(donnees)
           t == Co2Type(d, types)
       IN  (IF Counted(d, types)
            THEN <<[type |-> t, consommation |-> FloatOf(d.valeur).v, unite |-> d.unite,
                    facteur |-> Facteur(t), co2_kg |-> Round3(Co2Of(d, types)),
                    source |-> Source(t)]>>
            ELSE <<>>) \o Co2Detail(Tail(donnees), types)

\* total_co2: the sum of the unrounded values
RECURSIVE Co2Total(_, _)
Co2Total(donnees, types) ==
  IF donnees = <<>> THEN DecZero
  ELSE LET init == Co2Total(SubSeq(donnees, 1, Len(donnees) - 1), types)
           d == donnees[Len(donnees)]
       IN  IF Counted(d, types) THEN DecAdd(init, Co2Of(d, types)) ELSE init

\* the iteration order of the set of sources is the interpreter's: order is the
\* order its string hashing gives the three sources in this process
Sources(detail, order) ==
  SelectSeq(order, LAMBDA src : \E i \in 1..Len(detail) : detail[i].source = src)

SourceOrders ==
  LET S == {Source("electricite"), Source("gaz_naturel"), Source("eau")}
  IN  {o \in [1..3 -> S] : \A a \in S : \E i \in 1..3 : o[i] = a}

\* _calculate_co2_combined: total is None when the sum is 0
calculate_co2_combined(donnees, types, order) ==
  LET total == Co2Total(donnees, types)
      detail == Co2Detail(donnees, types)
  IN  IF DecIsZero(total)
      THEN [total |-> [some |-> FALSE, v |-> DecZero], detail |-> <<>>,
            facteurs |-> <<>>, sources |-> <<>>]
      ELSE [total |-> Some(Round3(total)), detail |-> detail,
            facteurs |-> [i \in 1..Len(detail) |-> <<detail[i].facteur, detail[i].unite>>],
            sources |-> Sources(detail, order)]

\* _get_energy_labels
EnergyLabel(t) ==
  CASE t = "electricite" -> "Electricite (reseau)"
    [] t = "gaz_naturel" -> "Gaz naturel"
    [] t = "eau" -> "Eau potable (+ assainissement)"
    [] t = "essence" -> "Essence (carburant)"
    [] t = "diesel" -> "Diesel / Gasoil"
    [] t = "gpl" -> "GPL"

RECURSIVE JoinLabels(_)
JoinLabels(types) ==
  IF types = <<>> THEN ""
  ELSE IF Head(types) = "inconnu" THEN JoinLabels(Tail(types))
  ELSE IF JoinLabels(Tail(types)) = "" THEN EnergyLabel(Head(types))
  ELSE EnergyLabel(Head(types)) \o " + " \o JoinLabels(Tail(types))

get_energy_labels(types) ==
  IF JoinLabels(types) = "" THEN "Non identifie" ELSE JoinLabels(types)

\* the data points "Emissions CO2 (type)" added when no emission is declared
Co2Points(detail) ==
  [i \in 1..Len(detail) |->
     Donnee("Emissions CO2 (" \o detail[i].type \o ")", FloatStr(detail[i].co2_kg),
            "kg CO2", 75)]

\* -------------------------------------------------------- cross-validation
DecOf(v) == IF v.inf THEN DecInf ELSE Dec(IntPart(v), FracPart(v), v.s)

\* a < b on computed floats
DecLt(a, b) ==
  IF a.inf THEN FALSE ELSE IF b.inf THEN TRUE
  ELSE \/ a.ip < b.ip
       \/ a.ip = b.ip /\ a.fp * Pow10(Max(a.s, b.s) - a.s) < b.fp * Pow10(Max(a.s, b.s) - b.s)

\* the value the loop of _cross_validate leaves in one of its three variables:
\* that of the last data point of the branch, None if there is none
TotalChamps == {"Montant total", "Montant total HT", "Total TTC"}

Branch(d) ==
  LET pos == ~FloatOf(d.valeur).err /\ VPos(FloatOf(d.valeur).v)
  IN  IF d.unite = "kWh" THEN (IF pos THEN "kwh" ELSE "")
      ELSE IF ChampHas(d.champ, "payer") THEN (IF pos THEN "payer" ELSE "")
      ELSE IF d.champ \in TotalChamps /\ d.unite = "DT" /\ pos THEN "total"
      ELSE ""

LastOf(donnees, branch) ==
  LET at == {i \in 1..Len(donnees) : Branch(donnees[i]) = branch}
      last == CHOOSE i \in at : \A j \in at : j <= i
  IN  IF at = {} THEN None ELSE Some(FloatOf(donnees[last].valeur).v)

\* datetime(y, m, d) and the day count between two dates
IsLeap(y) == y % 4 = 0 /\ (y % 100 # 0 \/ y % 400 = 0)
DaysInMonth(y, m) ==
  IF m = 2 THEN (IF IsLeap(y) THEN 29 ELSE 28)
  ELSE IF m \in {4, 6, 9, 11} THEN 30 ELSE 31

Year(d) == DigVal(SubSeq(d.ds, 1, 4))
Month(d) == DigVal(SubSeq(d.ds, 5, 6))
Day(d) == DigVal(SubSeq(d.ds, 7, 8))

ValidDate(d) ==
  /\ Year(d) >= 1 /\ Month(d) >= 1 /\ Month(d) <= 12
  /\ Day(d) >= 1 /\ Day(d) <= DaysInMonth(Year(d), Month(d))

RECURSIVE DaysBefore(_, _)
DaysBefore(y, m) == IF m <= 1 THEN 0 ELSE DaysBefore(y, m - 1) + DaysInMonth(y, m - 1)

Ordinal(d) ==
  LET y == Year(d) - 1
  IN  365 * y + y \div 4 - y \div 100 + y \div 400 + DaysBefore(Year(d), Month(d)) + Day(d)

Alerte(kind, a, b) == [kind |-> kind, a |-> a, b |-> b]

\* the alerts with a period of seven days counted as short
PeriodAlerts_week(periode) ==
  IF Len(periode) < 2 \/ ~ValidDate(periode[1]) \/ ~ValidDate(periode[2]) THEN <<>>
  ELSE LET delta == Ordinal(periode[2]) - Ordinal(periode[1])
       IN  IF delta < 0 THEN <<Alerte("Periode inversee", DecZero, DecZero)>>
           ELSE IF delta > 365 THEN <<Alerte("Periode longue", Dec(delta, 0, 0), DecZero)>>
           ELSE IF delta <= 7 THEN <<Alerte("Periode courte", Dec(delta, 0, 0), DecZero)>>
           ELSE <<>>

PeriodAlerts(periode) ==
  IF Len(periode) < 2 \/ ~ValidDate(periode[1]) \/ ~ValidDate(periode[2]) THEN <<>>
  ELSE LET delta == Ordinal(periode[2]) - Ordinal(periode[1])
       IN  IF delta < 0 THEN <<Alerte("Periode inversee", DecZero, DecZero)>>
           ELSE IF delta > 365 THEN <<Alerte("Periode longue", Dec(delta, 0, 0), DecZero)>>
           ELSE IF delta < 7 THEN <<Alerte("Periode courte", Dec(delta, 0, 0), DecZero)>>
           ELSE <<>>

\* the total amount first, the amount due only without one
BestMontant_total_first(payer, total) == IF total.some THEN total ELSE payer

\* best_montant = montant_payer or montant_total
BestMontant(payer, total) == IF payer.some THEN payer ELSE total

\* _cross_validate
cross_validate(donnees, emission, periode) ==
  LET conso == LastOf(donnees, "kwh")
      payer == LastOf(donnees, "payer")
      total == LastOf(donnees, "total")
      best == BestMontant(payer, total)
      half == payer.some /\ total.some
                /\ DecLt(DecMul(payer.v, 2, 0), DecOf(total.v))
      tarif == conso.some /\ best.some
                 /\ \/ DecLt(DecMul(best.v, 20, 0), DecOf(conso.v))
                    \/ DecLt(DecMul(conso.v, 2, 0), DecOf(best.v))
      high == emission.some /\ DecLt(Dec(50000, 0, 0), emission.v)
      low == /\ emission.some /\ ~high /\ DecLt(emission.v, Dec(0, 1, 1))
             /\ conso.some /\ VGt(conso.v, Val(10, 0))
  IN  (IF half THEN <<Alerte("Montant a payer < 50% du montant total",
                             DecOf(payer.v), DecOf(total.v))>> ELSE <<>>)
      \o (IF tarif THEN <<Alerte("Tarif estime hors plage", DecOf(best.v), DecOf(conso.v))>>
          ELSE <<>>)
      \o (IF high THEN <<Alerte("Emissions CO2 anormalement elevees", emission.v, DecZero)>>
          ELSE IF low THEN <<Alerte("Emissions CO2 trop basses", DecOf(conso.v), DecZero)>>
          ELSE <<>>)
      \o PeriodAlerts(periode)

\* ------------------------------------------------------------- global score
NoDec == [some |-> FALSE, v |-> DecZero]

ConsoUnits == {"kWh", "m3", "litres"}

\* max(d.confiance for the consumption data points), in hundredths; 0 if none
ConsoConf(donnees) ==
  LET cs == {donnees[i].confiance : i \in {j \in 1..Len(donnees) : donnees[j].unite \in ConsoUnits}}
  IN  IF cs = {} THEN 0 ELSE CHOOSE c \in cs : \A d \in cs : d <= c

\* the conditions of the score, as a bit mask
ScoreMask(r) ==
  (IF r.type_facture # "inconnu" THEN 1 ELSE 0)
  + (IF r.fournisseur # "None" THEN 2 ELSE 0)
  + (IF r.periode # <<>> THEN 4 ELSE 0)
  + (IF \E i \in 1..Len(r.donnees) :
          ChampHas(r.donnees[i].champ, "montant") \/ ChampHas(r.donnees[i].champ, "payer")
       THEN 8 ELSE 0)
  + (IF r.emission_co2_kg.some THEN 16 ELSE 0)
  + (IF r.reference_facture # NoStr \/ r.reference_client # NoStr THEN 32 ELSE 0)
  + (IF r.alertes = <<>> THEN 64 ELSE 0)

Bit(mask, b) == (mask \div b) % 2

\* the weighted sum, in units of 0.0001
ScoreSum(r) ==
  LET m == ScoreMask(r)
  IN  1000 * Bit(m, 1) + 1000 * Bit(m, 2) + 1000 * Bit(m, 4) + 25 * ConsoConf(r.donnees)
        + 1500 * Bit(m, 8) + 1500 * Bit(m, 16) + 500 * Bit(m, 32) + 1000 * Bit(m, 64)

\* the sums that end in 5 thousandths are held as binary doubles; these are the
\* ones (1000 * confidence + mask) whose double lies below the decimal value, so
\* that round(score, 2) rounds them down
ScoreTiesDown ==
  {70000, 70008, 70015, 70016, 70023, 70024, 70032, 70035, 70037, 70038, 70040,
   70048, 70067, 70069, 70070, 70072, 70075, 70077, 70078, 70079, 70080, 70083,
   70085, 70086, 70087, 70088, 70096, 70103, 70104, 70112, 70120, 90009, 90010,
   90012, 90017, 90018, 90020, 90025, 90026, 90028, 90040, 90048, 90071, 90072,
   90073, 90074, 90076, 90080, 90081, 90082, 90084, 90088, 90089, 90090, 90092,
   90097, 90098, 90100, 90105, 90106, 90108, 90113, 90114, 90116}

\* the score with the confidence added whole (score += conso_conf) and no min(1.0, .)
score_unweighted(r) == (ScoreSum(r) + 75 * ConsoConf(r.donnees)) \div 100

\* _calculate_global_score: round(min(1.0, score), 2), in hundredths
calculate_global_score(r) ==
  LET e == Min(10000, ScoreSum(r))
      down == 1000 * ConsoConf(r.donnees) + ScoreMask(r) \in ScoreTiesDown
  IN  IF e % 100 > 50 \/ (e % 100 = 50 /\ ~down) THEN e \div 100 + 1 ELSE e \div 100

\* ------------------------------------------------------------------ résumé
TypeTag(t) ==
  CASE t = "electricite" -> "[ELEC]"
    [] t = "gaz_naturel" -> "[GAZ]"
    [] t = "eau" -> "[EAU]"
    [] t \in {"essence", "diesel"} -> "[CARB]"
    [] t = "gpl" -> "[GPL]"
    [] t = "inconnu" -> "[?]"

\* a résumé: a fixed text, or the lines formatted from these fields in this
\* order (an absent field gives no line)
Resume(text, tags, labels, r) ==
  [text |-> text, tags |-> tags, labels |-> labels,
   fournisseur |-> r.fournisseur, periode |-> r.periode,
   reference |-> r.reference_facture, client |-> r.reference_client,
   adresse |-> r.adresse, donnees |-> r.donnees,
   bilan |-> IF r.detail_co2 # <<>> THEN "detail"
             ELSE IF r.emission_co2_kg.some THEN "total" ELSE "impossible",
   detail |-> r.detail_co2, total |-> r.emission_co2_kg,
   facteurs |-> r.facteur_emission_utilise, sources |-> r.source_facteur,
   alertes |-> r.alertes, score |-> r.score_global]

\* _generer_resume
generer_resume(r) ==
  Resume("", [i \in 1..Len(r.types_energie) |-> TypeTag(r.types_energie[i])],
         get_energy_labels(r.types_energie), r)

Fields ==
  [type_facture |-> "inconnu", fournisseur |-> "None", periode |-> <<>>,
   donnees |-> <<>>, emission_co2_kg |-> NoDec, facteur_emission_utilise |-> <<>>,
   source_facteur |-> <<>>, reference_facture |-> NoStr,
   reference_client |-> NoStr, adresse |-> NoStr, types_energie |-> <<>>,
   detail_co2 |-> <<>>, score_global |-> 0, alertes |-> <<>>]

\* the fixed texts: resume = "" and resume = "Aucun texte à analyser."
FixedResume(text) == [Resume(text, <<>>, "", Fields) EXCEPT !.bilan = ""]
NoResume == FixedResume("")
Sentinel == FixedResume("Aucun texte a analyser.")

\* ResultatExtraction(): the defaults of the dataclass
ResultatExtraction ==
  [type_facture |-> "inconnu", fournisseur |-> "None", periode |-> <<>>,
   donnees |-> <<>>, emission_co2_kg |-> NoDec, facteur_emission_utilise |-> <<>>,
   source_facteur |-> <<>>, resume |-> NoResume, reference_facture |-> NoStr,
   reference_client |-> NoStr, adresse |-> NoStr, types_energie |-> <<>>,
   detail_co2 |-> <<>>, score_global |-> 0, alertes |-> <<>>]

\* ------------------------------------------------------------- the inputs
\* the texts of at most n tokens of an alphabet
Texts(alphabet, n) == UNION {[1..k -> alphabet] : k \in 1..n}

\* free texts of readings, of declared emissions, of amounts, of dates
UnitAlphabet ==
  {N(<<7>>, 0), N(<<1, 0, 0, 1>>, 3), N(<<0, 0, 0, 0, 1>>, 4),
   W("kWh"), W("m3"), W("litres")}
Co2Alphabet == {N(<<5>>, 0), Mal, W("CO2"), W("kg"), W("kWh"), W(":")}
AmountAlphabet ==
  {N(<<8, 0, 2, 0, 0>>, 3), N(<<7>>, 0), Mal,
   W("Montant a payer"), W("MONTANT TOTAL"), W("kWh")}
DateAlphabet ==
  {D(<<2, 0, 2, 2, 0, 6, 0, 3>>), D(<<2, 0, 2, 2, 0, 8, 0, 5>>),
   D(<<2, 0, 2, 2, 0, 2, 3, 0>>), W("au"), W("mars 2022"), W("Reference :")}

\* texts that name a supplier first
StegAlphabet ==
  {N(<<4, 0, 0>>, 0), Big, W("Quantite (1)"), W("kWh"), W("Reference :"), W("GAZ-NATUR")}
SonedeAlphabet ==
  {N(<<1, 5, 4>>, 0), N(<<0, 0, 5, 4>>, 3), Big, Mal, W("m3"), W("CONSOMMATION")}

\* the amounts of a STEG bill: 80.200, 80.2004 (the same to three decimals),
\* 0.400 and 0.000, with the labels of the four stages
StegAmountAlphabet ==
  {N(<<8, 0, 2, 0, 0>>, 3), N(<<8, 0, 2, 0, 0, 4>>, 4), N(<<0, 4, 0, 0>>, 3),
   N(<<0, 0, 0, 0>>, 3),
   W("Montant a payer"), W("Montant"), W("MONTANT TOTAL"), W("Total Gaz"),
   W("Bulletin de versement")}

\* free texts of supplier names, some of a supplier without a strategy of its own
SupplierAlphabet ==
  {W("STEG"), W("sonede"), W("eau"), W("EDF"), W("Shell"), W("Shell Energy"),
   N(<<7>>, 0), W("kWh")}

Named(name, alphabet) ==
  {<<W(name)>>} \cup {<<W(name)>> \o t : t \in Texts(alphabet, MaxLen)}

\* texts of one to MaxReadings readings, each a value and its unit
ReadingValues == {N(<<5>>, 0), N(<<1, 0, 0, 1>>, 3), N(<<1, 0, 0, 3>>, 3)}
ReadingUnits == {W("kWh"), W("m3"), W("litres")}
RECURSIVE Readings(_)
Readings(n) ==
  IF n = 0 THEN {<<>>}
  ELSE {<<v, u>> \o t : v \in ReadingValues, u \in ReadingUnits, t \in Readings(n - 1)}

\* texts of the first k, j and e keywords of three categories
ElecKeywords ==
  <<W("Electricite"), W("electricity"), W("kWh"), W("kilowatt"),
    W("consommation electrique"), W("tarif electricite"), W("puissance souscrite"),
    W("heures pleines"), W("heures creuses"), W("STEG")>>
GazKeywords == <<W("gaz naturel"), W("thermie"), W("compteur gaz")>>
EauKeywords == <<W("eau"), W("water")>>
KeywordTexts ==
  {SubSeq(ElecKeywords, 1, k) \o SubSeq(GazKeywords, 1, j) \o SubSeq(EauKeywords, 1, e) :
     k \in 0..Len(ElecKeywords), j \in 0..Len(GazKeywords), e \in 0..Len(EauKeywords)} \ {<<>>}

\* STEG bills with a reference and two numbers on a line between the totals, a
\* gas line or a lighting line
GasNumbers ==
  {N(<<1, 5, 4>>, 0), N(<<4, 0, 0>>, 0), N(<<1, 9>>, 0), N(<<2, 0, 5, 0>>, 0),
   N(<<8, 7, 7, 1, 2, 4>>, 3)}
GasBills ==
  {<<W("STEG"), W("Reference :"), r, W("Total Electricite"), m, g, h,
     W("Total Gaz")>> :
     r \in GasNumbers, m \in {W("GAZ-NATUR"), W("ECLAIRAGE")},
     g \in GasNumbers, h \in GasNumbers}

ReadingTexts == UNION {Readings(n) : n \in 1..MaxReadings}

\* STEG bills with up to four electricity candidates: a labelled quantity, before
\* or after the first of two kWh readings, and a pair of meter indexes
VoteValues == {N(<<4, 0, 0>>, 0), N(<<7>>, 0)}
VoteIndexes == {N(<<1, 0, 4, 0, 0>>, 0), N(<<1, 0, 0, 0, 7>>, 0)}
VoteBills ==
  {<<W("STEG")>> \o (IF first THEN q \o k1 ELSE k1 \o q) \o k2 \o x :
     first \in BOOLEAN,
     q \in {<<>>} \cup {<<W("Quantite (1)"), v>> : v \in VoteValues},
     k1 \in {<<>>} \cup {<<v, W("kWh")>> : v \in VoteValues},
     k2 \in {<<>>} \cup {<<v, W("kWh")>> : v \in VoteValues},
     x \in {<<>>} \cup {<<i, N(<<1, 0, 0, 0, 0>>, 0)>> : i \in VoteIndexes}}

\* a reading among the first n keywords of natural gas, before or after them
GasWords == <<W("gaz naturel"), W("thermie"), W("compteur gaz"), W("Total Gaz")>>
OutweighedBills ==
  {IF first THEN <<v, u>> \o SubSeq(GasWords, 1, n) ELSE SubSeq(GasWords, 1, n) \o <<v, u>> :
     first \in BOOLEAN, v \in ReadingValues, u \in ReadingUnits, n \in 1..Len(GasWords)}

\* bills of one kWh reading, an amount due and a total amount: the tariffs they
\* imply lie below 0.05, at 0.05, inside the range, at 2.0 and above 2.0
TariffAmounts ==
  {N(<<8, 0, 2, 0, 0>>, 3), N(<<7, 0, 0, 0>>, 3), N(<<1, 4, 0, 0, 0>>, 3),
   N(<<2, 0, 0, 0, 0>>, 3)}
TariffBills ==
  {s \o <<k, W("kWh")>> \o a \o t :
     s \in {<<>>, <<W("STEG")>>},
     k \in {N(<<4, 0, 0>>, 0), N(<<7>>, 0)},
     a \in {<<>>} \cup {<<W("Montant a payer"), x>> : x \in TariffAmounts},
     t \in {<<>>} \cup {<<W("MONTANT TOTAL"), y>> : y \in TariffAmounts}}

\* bills of two dates, each in ASCII or in Arabic-Indic digits, side by side or
\* with a word between them
ScriptDates ==
  {D(<<2, 0, 2, 3, 0, 1, 0, 1>>), D(<<2, 0, 2, 2, 0, 6, 0, 3>>),
   DAr(<<2, 0, 2, 3, 0, 1, 0, 1>>), DAr(<<2, 0, 2, 2, 0, 6, 0, 3>>)}
ScriptBills ==
  {s \o <<a>> \o m \o <<b>> :
     s \in {<<>>, <<W("STEG")>>}, a \in ScriptDates,
     m \in {<<>>, <<W("au")>>, <<W("Facture")>>}, b \in ScriptDates}

\* bills of two dates 0, 6, 7, 365 and 366 days apart, or with the 29th of
\* February of a leap year and of a common year
PeriodDates ==
  {D(<<2, 0, 2, 2, 0, 6, 0, 3>>), D(<<2, 0, 2, 2, 0, 6, 0, 9>>),
   D(<<2, 0, 2, 2, 0, 6, 1, 0>>), D(<<2, 0, 2, 3, 0, 6, 0, 3>>),
   D(<<2, 0, 2, 3, 0, 6, 0, 4>>), D(<<2, 0, 2, 4, 0, 2, 2, 9>>),
   D(<<2, 0, 2, 3, 0, 2, 2, 9>>)}
PeriodBills ==
  {s \o <<a, b>> : s \in {<<>>, <<W("STEG")>>}, a \in PeriodDates, b \in PeriodDates}

\* bills of a reading and a declared emission, in either order; one declaration
\* is malformed
DeclaredBills ==
  {s \o (IF first THEN r \o c ELSE c \o r) :
     s \in {<<>>, <<W("STEG")>>}, first \in BOOLEAN,
     r \in {<<>>} \cup {<<v, u>> : v \in {N(<<5>>, 0), N(<<4, 0, 0>>, 0)}, u \in ReadingUnits},
     c \in {<<>>, <<N(<<7>>, 0), W("kg"), W("CO2")>>, <<W("CO2"), W(":"), N(<<7>>, 0), W("kg")>>,
            <<W("CO2"), Mal, W("kg")>>}}

\* the bill of test_steg.py
TestBill ==
  <<W("Societe Tunisienne de l Electricite et du Gaz"), W("STEG"), W("Facture"),
    W("ref"), N(<<2, 1, 8, 0, 7, 7, 5, 6, 0>>, 0),
    W("Facture"), W("N"), W("Depannage"), N(<<7, 1, 9, 7, 8, 9, 6, 6>>, 0),
    W("District"), W("KRAM"), W("FACTURE INTERMEDIAIRE"),
    D(<<2, 0, 2, 2, 0, 8, 0, 5>>), W(":"), D(<<2, 0, 2, 2, 0, 6, 0, 3>>), W(":"),
    W("CONSOMMATION"), W("&"), W("SERVICES"),
    W("Quantite (1)"), N(<<4, 0, 0>>, 0), N(<<1, 5, 4, 4, 1>>, 0), N(<<1, 5, 4, 4, 1>>, 0),
    N(<<2>>, 0), N(<<7>>, 0), N(<<2, 7, 0, 9, 1, 1, 0, 0, 0, 2, 6, 6, 6, 7>>, 0),
    W("ECLAIRAGE"),
    N(<<1, 9>>, 0), N(<<9, 8, 0, 0>>, 3), N(<<0, 7, 0, 0>>, 3), W("Redevances Fixes"),
    W("ECLAIRAGE"),
    N(<<8, 0, 2, 0, 0>>, 3), W("Total Electricite"),
    W("Gaz"),
    N(<<1, 9>>, 0), N(<<8, 5, 6, 2, 4>>, 3), N(<<0, 5, 5, 6>>, 3), N(<<1, 5, 4>>, 0),
    N(<<4, 3, 1, 0>>, 0), N(<<4, 3, 1, 0>>, 0), N(<<2>>, 0), N(<<5>>, 0),
    W("SG14040520S607"), W("GAZ-NATUR"),
    N(<<1, 5, 0, 0>>, 3), N(<<0, 1, 5, 0>>, 3), N(<<2>>, 0), N(<<5>>, 0),
    W("SG14040520S607"), W("GAZ-NATUR"),
    N(<<8, 7, 1, 2, 4>>, 3), W("Total Gaz"),
    N(<<0>>, 0), W("Total Services"),
    N(<<1, 6, 7, 3, 2, 4>>, 3), W("Total Consommation & Services"),
    N(<<2, 0, 0, 8, 6, 2>>, 3), W("MONTANT TOTAL"),
    N(<<7, 7, 7, 0, 0, 0>>, 3), W("Montant a payer"),
    W("SEPT CENTS SOIXANTE-DIX-SEPT DINARS ZERO MLLIMES"), W("TTC"),
    D(<<2, 0, 2, 2, 0, 8, 2, 9>>), D(<<2, 0, 2, 2, 1, 0, 0, 4>>)>>

\* a text of blanks only
Blank == <<W(" ")>>

Inputs ==
  {<<>>, Blank, TestBill}
    \cup Texts(UnitAlphabet, MaxLen) \cup Texts(Co2Alphabet, MaxLen)
    \cup Texts(AmountAlphabet, MaxLen) \cup Texts(DateAlphabet, MaxLen)
    \cup Named("STEG", StegAlphabet) \cup Named("sonede", SonedeAlphabet)
    \cup Named("STEG", StegAmountAlphabet)
    \cup Texts(SupplierAlphabet, MaxLen)
    \cup VoteBills
    \cup ReadingTexts \cup KeywordTexts \cup GasBills \cup OutweighedBills
    \cup TariffBills \cup ScriptBills \cup PeriodBills \cup DeclaredBills

\* ------------------------------------------------------- the state machine
VARIABLES
  texte_ocr,   \* the argument of extraire_donnees_environnementales
  call,        \* the number of the invocation on this text
  pc,          \* where the invocation stands
  result,      \* its ResultatExtraction
  zones,       \* the TextZones of step 3
  strategy,    \* the ExtractionStrategy of step 3
  prev         \* the result the previous invocation returned

vars == <<texte_ocr, call, pc, result, zones, strategy, prev>>

Init ==
  /\ texte_ocr \in Inputs
  /\ call = 1
  /\ pc = "called"
  /\ result = ResultatExtraction
  /\ zones = NoZones(<<>>)
  /\ strategy = "None"
  /\ prev = ResultatExtraction

\* the test without "not texte_ocr.strip()"
IsEmpty(text) == text = <<>>

\* not texte_ocr or not texte_ocr.strip()
IsBlank(text) == text = <<>> \/ text = Blank

\* return ResultatExtraction(resume="Aucun texte à analyser.")
ReturnEmpty ==
  /\ pc = "called" /\ IsBlank(texte_ocr)
  /\ result' = [ResultatExtraction EXCEPT !.resume = Sentinel]
  /\ pc' = "returned"
  /\ UNCHANGED <<texte_ocr, call, zones, strategy, prev>>

\* text_lower = _normalize(texte_ocr); result = ResultatExtraction();
\* 1. result.fournisseur = _detect_fournisseur(text_lower)
DetectFournisseur ==
  /\ pc = "called" /\ ~IsBlank(texte_ocr)
  /\ result' = [ResultatExtraction EXCEPT !.fournisseur = detect_fournisseur(texte_ocr)]
  /\ pc' = "types"
  /\ UNCHANGED <<texte_ocr, call, zones, strategy, prev>>

\* 2. result.types_energie, result.type_facture
DetectTypes ==
  /\ pc = "types"
  /\ LET types == detect_all_types(texte_ocr)
     IN  result' = [result EXCEPT !.types_energie = types,
                                  !.type_facture = IF types # <<>> THEN types[1]
                                                   ELSE "inconnu"]
  /\ pc' = "zones"
  /\ UNCHANGED <<texte_ocr, call, zones, strategy, prev>>

\* 3. zones and strategy, by supplier
ZonesSteg ==
  /\ pc = "zones" /\ result.fournisseur = "STEG"
  /\ zones' = parse_zones_steg(texte_ocr)
  /\ strategy' = "STEGStrategy"
  /\ pc' = "extraction"
  /\ UNCHANGED <<texte_ocr, call, result, prev>>

ZonesSonede ==
  /\ pc = "zones" /\ result.fournisseur = "SONEDE"
  /\ zones' = parse_zones_sonede(texte_ocr)
  /\ strategy' = "SONEDEStrategy"
  /\ pc' = "extraction"
  /\ UNCHANGED <<texte_ocr, call, result, prev>>

\* the dispatch with only the STEG test: SONEDE bills may take the generic path
ZonesGeneric_unless_steg ==
  /\ pc = "zones" /\ result.fournisseur # "STEG"
  /\ zones' = parse_zones_generic(texte_ocr)
  /\ strategy' = "GenericStrategy"
  /\ pc' = "extraction"
  /\ UNCHANGED <<texte_ocr, call, result, prev>>

ZonesGeneric ==
  /\ pc = "zones" /\ result.fournisseur \notin {"STEG", "SONEDE"}
  /\ zones' = parse_zones_generic(texte_ocr)
  /\ strategy' = "GenericStrategy"
  /\ pc' = "extraction"
  /\ UNCHANGED <<texte_ocr, call, result, prev>>

\* the methods of the strategy
extract_period(text, strat) ==
  IF strat = "STEGStrategy" THEN steg_extract_period(text) ELSE extract_period_generic(text)

extract_reference(text, strat) ==
  IF strat = "STEGStrategy" THEN steg_extract_reference(text)
  ELSE extract_references_generic(text)

extract_consumption(text, z, strat) ==
  CASE strat = "STEGStrategy" -> steg_extract_consumption(text, z)
    [] strat = "SONEDEStrategy" -> sonede_extract_consumption(text)
    [] OTHER -> extract_consumption_generic(text)

extract_amounts(text, z, strat) ==
  IF strat = "STEGStrategy" THEN steg_extract_amounts(text, z)
  ELSE extract_amounts_generic(text)

\* an int() outside any try raises ValueError on a run of more digits than the
\* interpreter converts
consumption_raises(text, strat) ==
  CASE strat = "STEGStrategy" -> steg_electricity_raises(text) \/ steg_gas_raises(text)
    [] strat = "SONEDEStrategy" -> sonede_raises(text)
    [] OTHER -> FALSE

\* 4. period, references, address, the "Type d'energie" data point, consumption,
\* amounts and declared emissions
Extract ==
  /\ pc = "extraction" /\ ~consumption_raises(texte_ocr, strategy)
  /\ LET ref == extract_reference(texte_ocr, strategy)
     IN  result' =
           [result EXCEPT
              !.periode = extract_period(texte_ocr, strategy),
              !.reference_facture = ref[1],
              !.reference_client = ref[2],
              !.adresse = extract_address_generic(texte_ocr),
              !.donnees =
                 <<Donnee("Type d'energie", Txt(get_energy_labels(result.types_energie)),
                          "None", 90)>>
                 \o extract_consumption(texte_ocr, zones, strategy)
                 \o extract_amounts(texte_ocr, zones, strategy)
                 \o extract_co2_direct(texte_ocr)]
  /\ pc' = "co2"
  /\ UNCHANGED <<texte_ocr, call, zones, strategy, prev>>

\* the ValueError of extract_consumption leaves the pipeline: no result
ExtractRaises ==
  /\ pc = "extraction" /\ consumption_raises(texte_ocr, strategy)
  /\ pc' = "raised"
  /\ UNCHANGED <<texte_ocr, call, result, zones, strategy, prev>>

\* step 5 without the test of has_declared
ComputeCo2_always_points ==
  /\ pc = "co2"
  /\ \E order \in SourceOrders :
       LET co2 == calculate_co2_combined(result.donnees, result.types_energie, order)
       IN  result' =
             IF co2.total.some
             THEN [result EXCEPT
                     !.emission_co2_kg = co2.total,
                     !.facteur_emission_utilise = co2.facteurs,
                     !.source_facteur = co2.sources,
                     !.detail_co2 = co2.detail,
                     !.donnees = @ \o Co2Points(co2.detail)]
             ELSE result
  /\ pc' = "validation"
  /\ UNCHANGED <<texte_ocr, call, zones, strategy, prev>>

\* 5. combined CO2; the data points of the detail unless an emission is declared
ComputeCo2 ==
  /\ pc = "co2"
  /\ \E order \in SourceOrders :
       LET has_declared == \E i \in 1..Len(result.donnees) :
                             ChampHas(result.donnees[i].champ, "declar")
           co2 == calculate_co2_combined(result.donnees, result.types_energie, order)
       IN  result' =
             IF co2.total.some
             THEN [result EXCEPT
                     !.emission_co2_kg = co2.total,
                     !.facteur_emission_utilise = co2.facteurs,
                     !.source_facteur = co2.sources,
                     !.detail_co2 = co2.detail,
                     !.donnees = IF has_declared THEN @ ELSE @ \o Co2Points(co2.detail)]
             ELSE result
  /\ pc' = "validation"
  /\ UNCHANGED <<texte_ocr, call, zones, strategy, prev>>

\* 6. result.alertes = _cross_validate(result)
CrossValidate ==
  /\ pc = "validation"
  /\ result' = [result EXCEPT
                  !.alertes = cross_validate(result.donnees, result.emission_co2_kg,
                                             result.periode)]
  /\ pc' = "score"
  /\ UNCHANGED <<texte_ocr, call, zones, strategy, prev>>

\* 7. result.score_global = _calculate_global_score(result)
Score ==
  /\ pc = "score"
  /\ result' = [result EXCEPT !.score_global = calculate_global_score(result)]
  /\ pc' = "resume"
  /\ UNCHANGED <<texte_ocr, call, zones, strategy, prev>>

\* 8. result.resume = _generer_resume(result); return result
Summarise ==
  /\ pc = "resume"
  /\ result' = [result EXCEPT !.resume = generer_resume(result)]
  /\ pc' = "returned"
  /\ UNCHANGED <<texte_ocr, call, zones, strategy, prev>>

\* the caller invokes the pipeline on the same text again
CallAgain ==
  /\ pc = "returned" /\ call < MaxCalls
  /\ prev' = result
  /\ call' = call + 1
  /\ pc' = "called"
  /\ result' = ResultatExtraction
  /\ zones' = NoZones(<<>>)
  /\ strategy' = "None"
  /\ UNCHANGED texte_ocr

Next ==
  \/ ReturnEmpty \/ DetectFournisseur \/ DetectTypes
  \/ ZonesSteg \/ ZonesSonede \/ ZonesGeneric
  \/ Extract \/ ExtractRaises
  \/ ComputeCo2 \/ CrossValidate \/ Score \/ Summarise
  \/ CallAgain

Spec == Init /\ [][Next]_vars

\* ------------------------------------------------------------- properties
Range(seq) == {seq[i] : i \in 1..Len(seq)}

\* the pipeline has returned / has run its type detection on a text that is not blank
Returned == pc = "returned"
NotBlank == texte_ocr # <<>> /\ texte_ocr # Blank
Detected == NotBlank /\ pc \notin {"called", "types"}

\* sum(d["co2_kg"] for d in detail)
RECURSIVE SumCo2Kg(_)
SumCo2Kg(detail) ==
  IF detail = <<>> THEN DecZero ELSE DecAdd(detail[1].co2_kg, SumCo2Kg(Tail(detail)))

\* C1: in every returned result whose detail_co2 is non-empty, emission_co2_kg equals
\* the sum of the co2_kg stored in the detail entries, rounded to 3 decimals.
\* Refuted: the code rounds the sum of the unrounded products.
C1_TotalIsSumOfDetail ==
  (Returned /\ result.detail_co2 # <<>>) =>
     result.emission_co2_kg = Some(Round3(SumCo2Kg(result.detail_co2)))

\* C2: in every returned result, emission_co2_kg is present iff detail_co2 is
\* non-empty, and a total of 0 is never reported.  Refuted: a running total that is
\* not 0 but rounds to 0.0 is reported.
C2_TotalIffDetailNeverZero ==
  Returned =>
     /\ result.emission_co2_kg.some <=> result.detail_co2 # <<>>
     /\ result.emission_co2_kg.some => ~DecIsZero(result.emission_co2_kg.v)

\* C3: for every input text, the empty one included, 0 <= score_global <= 1 (the
\* score is held in hundredths), at every step of the pipeline and in the result.
C3_ScoreBound == 0 <= result.score_global /\ result.score_global <= 100

\* a bill on which every weight but a part of the consumption one is earned
C3_HighScore == Returned /\ result.score_global >= 98

\* no keyword of the lexicon occurs in the text
NoKeyword(text) == \A k \in 1..Len(TypeOrder) : TypeScore(TypeOrder[k], text) = 0

\* C4 as stated: in every returned result, for any input string, types_energie is
\* non-empty, and it is exactly ["inconnu"] when no lexicon keyword occurs in the text.
C4_TypesNeverEmpty ==
  Returned =>
     /\ result.types_energie # <<>>
     /\ NoKeyword(texte_ocr) => result.types_energie = <<"inconnu">>

\* C4, amended: for every input string that is not empty or blank, from the type
\* detection on and in the returned result, types_energie is non-empty, and it is
\* exactly ["inconnu"] when no lexicon keyword occurs in the text; the result for
\* an empty or blank input keeps the default, empty list.
C4_TypesNonEmptyUnlessBlank ==
  /\ Detected =>
       /\ result.types_energie # <<>>
       /\ NoKeyword(texte_ocr) => result.types_energie = <<"inconnu">>
  /\ (Returned /\ ~NotBlank) => result.types_energie = <<>>

\* a returned result of a text that is not blank and holds no keyword
C4_Inconnu ==
  /\ Returned /\ NotBlank /\ NoKeyword(texte_ocr)
  /\ result.types_energie = <<"inconnu">> /\ result.type_facture = "inconnu"

\* C5: on an input that is empty or holds only whitespace, the call returns at
\* once, before any detection or extraction stage, a result whose summary is
\* exactly "Aucun texte a analyser.", with empty donnees, no supplier, no period,
\* no references, no CO2 total, empty alerts and score 0.
C5_BlankShortCircuits ==
  [][(pc = "called" /\ texte_ocr \in {<<>>, Blank}) =>
        /\ pc' = "returned"
        /\ result'.resume = FixedResume("Aucun texte a analyser.")
        /\ result'.donnees = <<>> /\ result'.fournisseur = "None"
        /\ result'.periode = <<>>
        /\ result'.reference_facture = NoStr /\ result'.reference_client = NoStr
        /\ ~result'.emission_co2_kg.some /\ result'.detail_co2 = <<>>
        /\ result'.alertes = <<>> /\ result'.score_global = 0
        /\ zones' = zones /\ strategy' = strategy]_vars

\* the whitespace-only text has returned the fixed summary
C5_BlankReturned ==
  /\ Returned /\ texte_ocr = Blank /\ strategy = "None"
  /\ result = [ResultatExtraction EXCEPT !.resume = Sentinel]

\* C6: two invocations of the pipeline on the same string return field-for-field
\* identical results, the order of the data points, of the detail entries and of
\* the sources joined in source_facteur included.  Refuted: source_facteur joins
\* list(set(...)), whose order is the interpreter's string hashing, which differs
\* from one interpreter process to the next.
C6_Deterministic == (Returned /\ call > 1) => result = prev

\* C7: for every input text the pipeline runs to completion and returns a result;
\* no numeric candidate raises.  Refuted: int() of a digit run longer than the
\* interpreter's limit raises ValueError outside any try.
C7_NeverRaises == pc # "raised"

\* the position of a category in _TYPE_KEYWORDS
LexiconIndex(t) == CHOOSE k \in 1..Len(TypeOrder) : TypeOrder[k] = t

\* C8: when a keyword occurs, what _detect_all_types has returned (step 2 is over)
\* is exactly the categories whose hit count s satisfies s >= max(1, 0.3 * max_score),
\* by descending score, equal scores in the order of the lexicon.
C8_Threshold ==
  (pc = "zones" /\ ~NoKeyword(texte_ocr)) =>
     LET types == result.types_energie
         hits == [t \in Range(TypeOrder) |-> TypeScore(t, texte_ocr)]
         top == CHOOSE m \in {hits[t] : t \in Range(TypeOrder)} :
                  \A t \in Range(TypeOrder) : hits[t] <= m
     IN  /\ \A t \in Range(TypeOrder) :
              t \in Range(types) <=> (hits[t] >= 1 /\ 10 * hits[t] >= 3 * top)
         /\ \A i \in 1..Len(types) : \A j \in (i + 1)..Len(types) :
              \/ hits[types[i]] > hits[types[j]]
              \/ /\ hits[types[i]] = hits[types[j]]
                 /\ LexiconIndex(types[i]) < LexiconIndex(types[j])

\* ten hits for electricity, three for gas, one for water: both strong categories
\* are returned and the one with a single hit is left out
C8_OneHitExcluded ==
  /\ pc = "zones"
  /\ TypeScore("electricite", texte_ocr) = 10
  /\ TypeScore("gaz_naturel", texte_ocr) >= 3
  /\ TypeScore("eau", texte_ocr) = 1
  /\ result.types_energie = <<"electricite", "gaz_naturel">>

\* the gas data points of the result
GasPoints == {d \in Range(result.donnees) : d.champ = "Volume consomme (gaz)"}

\* the digit runs of the region searched for the gas quantity that lie in [50, 2000)
GasRegionRuns ==
  {c \in Range(GasCandidates(zones.gaz \o BetweenTotals(texte_ocr, TotalGazAt).zone)) :
     50 <= DigVal(c) /\ DigVal(c) < 2000}

C10_TestBill ==
  (Returned /\ texte_ocr = TestBill) =>
     /\ result.fournisseur = "STEG"
     /\ Donnee("Energie consommee (electricite)", Str(<<4, 0, 0>>, 0), "kWh", 90)
          \in Range(result.donnees)
     /\ Donnee("Montant a payer", Str(<<7, 7, 7, 0, 0, 0>>, 3), "DT", 95)
          \in Range(result.donnees)
     /\ result.reference_client = Str(<<7, 1, 9, 7, 8, 9, 6, 6>>, 0)
     /\ result.periode = <<D(<<2, 0, 2, 2, 0, 6, 0, 3>>), D(<<2, 0, 2, 2, 0, 8, 0, 5>>)>>
     /\ {"electricite", "gaz_naturel"} \subseteq Range(result.types_energie)

\* the bill has gone through the eight steps
C10_BillReturned ==
  Returned /\ texte_ocr = TestBill /\ strategy = "STEGStrategy" /\ result.donnees # <<>>

\* the detail entry of a consumption under its emission factor
DetailOf(type, consommation, unite, co2) ==
  [type |-> type, consommation |-> Val(consommation, 0), unite |-> unite,
   facteur |-> Facteur(type), co2_kg |-> co2, source |-> Source(type)]

C12_NoTypeNoEmission ==
  (Returned /\ result.types_energie = <<"inconnu">>) =>
     ~result.emission_co2_kg.some /\ result.detail_co2 = <<>>

\* the position of a supplier in the table of _detect_fournisseur
TableIndex(name) == CHOOSE k \in 1..Len(FournisseurOrder) : FournisseurOrder[k] = name

\* the keywords of a supplier that occur in the text, and its score in tenths
PresentKeywords(name, text) == {kw \in FournisseurKeywords(name) : InLower(kw, text)}
WeightedHits(name, text) == FournisseurWeight(name) * Cardinality(PresentKeywords(name, text))

\* C13: once step 1 is over, the supplier is the one with the highest strictly
\* positive score (its weight times the number of its keywords present in the
\* text); on an exact tie the supplier declared first in the table; and there is
\* no supplier exactly when no keyword of any supplier is present.
C13_BestSupplier ==
  pc # "called" =>
     LET f == result.fournisseur
         names == Range(FournisseurOrder)
     IN  /\ f = "None" <=> \A n \in names : PresentKeywords(n, texte_ocr) = {}
         /\ f # "None" =>
              /\ f \in names /\ WeightedHits(f, texte_ocr) > 0
              /\ \A n \in names : WeightedHits(n, texte_ocr) <= WeightedHits(f, texte_ocr)
              /\ \A n \in names :
                   TableIndex(n) < TableIndex(f) =>
                      WeightedHits(n, texte_ocr) < WeightedHits(f, texte_ocr)

\* STEG and SONEDE tie with one keyword each, EDF scores too: STEG, declared
\* first, is returned
C13_TieFirstDeclared ==
  /\ Returned
  /\ WeightedHits("STEG", texte_ocr) = 10 /\ WeightedHits("SONEDE", texte_ocr) = 10
  /\ WeightedHits("EDF", texte_ocr) = 10
  /\ result.fournisseur = "STEG"

\* step 3 is over: the zones and the strategy of this invocation are chosen
Dispatched == pc \in {"extraction", "co2", "validation", "score", "resume", "raised"}
                \/ (Returned /\ NotBlank)

\* the zones and the strategy in use are those of the detected supplier
DispatchBySupplier ==
  Dispatched =>
     /\ (strategy = "STEGStrategy" /\ zones = parse_zones_steg(texte_ocr))
          <=> result.fournisseur = "STEG"
     /\ (strategy = "SONEDEStrategy" /\ zones = parse_zones_sonede(texte_ocr))
          <=> result.fournisseur = "SONEDE"
     /\ (strategy = "GenericStrategy" /\ zones = parse_zones_generic(texte_ocr))
          <=> result.fournisseur \notin {"STEG", "SONEDE"}
     /\ result.fournisseur = detect_fournisseur(texte_ocr)

\* C14: the dispatch happens once, after supplier detection: the STEG segmenter
\* and strategy are used iff the detected supplier is STEG, the SONEDE ones iff it
\* is SONEDE, and the generic ones in every other case (no supplier, or a supplier
\* without a strategy of its own such as EDF or Shell); within an invocation the
\* zones and the strategy are set by step 3 alone and the supplier is not changed
\* after step 1.
C14_DispatchOnce ==
  /\ []DispatchBySupplier
  /\ [][/\ (strategy' # strategy \/ zones' # zones) => (pc = "zones" \/ pc' = "called")
        /\ (pc \notin {"called", "returned"}) => result'.fournisseur = result.fournisseur]_vars

\* a bill of EDF, a supplier without a strategy of its own, went the generic way
C14_EdfGeneric ==
  /\ Returned /\ result.fournisseur = "EDF"
  /\ strategy = "GenericStrategy" /\ zones = parse_zones_generic(texte_ocr)

\* ------------------------------------------------- concurrent invocations
\* Two invocations run in one process, each on its own text.  The variables hold
\* the invocation that is running (call is its number); prev holds the other one,
\* suspended between two of its steps: every local of
\* extraire_donnees_environnementales is saved with it.  The static tables are the
\* constant operators above: no step has them as a variable.
ConcInputs ==
  {Blank, TestBill,
   <<W("STEG"), W("Quantite (1)"), N(<<4, 0, 0>>, 0)>>,
   <<W("STEG"), W("Quantite (1)"), Big>>,
   <<W("sonede"), N(<<1, 5, 4>>, 0), W("m3")>>,
   <<N(<<7>>, 0), W("kWh"), N(<<7>>, 0), W("m3")>>,
   <<W("EDF"), N(<<7>>, 0), W("litres")>>}

Context(t, c, p, r, z, s) ==
  [texte_ocr |-> t, call |-> c, pc |-> p, result |-> r, zones |-> z, strategy |-> s]

InitConc ==
  /\ texte_ocr \in ConcInputs
  /\ call = 1
  /\ pc = "called"
  /\ result = ResultatExtraction
  /\ zones = NoZones(<<>>)
  /\ strategy = "None"
  /\ \E t \in ConcInputs :
       prev = Context(t, 2, "called", ResultatExtraction, NoZones(<<>>), "None")

\* a switch that leaves zones and strategy in place, as if they were module-level
\* variables written by step 3
Switch_shared_zones ==
  /\ prev.pc \notin {"returned", "raised"}
  /\ prev' = Context(texte_ocr, call, pc, result, zones, strategy)
  /\ texte_ocr' = prev.texte_ocr /\ call' = prev.call /\ pc' = prev.pc
  /\ result' = prev.result
  /\ UNCHANGED <<zones, strategy>>

\* the interpreter suspends the running invocation and resumes the other one
Switch ==
  /\ prev.pc \notin {"returned", "raised"}
  /\ prev' = Context(texte_ocr, call, pc, result, zones, strategy)
  /\ texte_ocr' = prev.texte_ocr /\ call' = prev.call /\ pc' = prev.pc
  /\ result' = prev.result /\ zones' = prev.zones /\ strategy' = prev.strategy

NextConc ==
  \/ ReturnEmpty \/ DetectFournisseur \/ DetectTypes
  \/ ZonesSteg \/ ZonesSonede \/ ZonesGeneric
  \/ Extract \/ ExtractRaises
  \/ ComputeCo2 \/ CrossValidate \/ Score \/ Summarise
  \/ Switch

SpecConc == InitConc /\ [][NextConc]_vars

\* extraire_donnees_environnementales run alone on a text, in a process whose
\* string hashing gives the sources the order `order`: how it ends, and the
\* result it returns
RunAlone(text, order) ==
  LET f == detect_fournisseur(text)
      types == detect_all_types(text)
      strat == CASE f = "STEG" -> "STEGStrategy"
                 [] f = "SONEDE" -> "SONEDEStrategy"
                 [] OTHER -> "GenericStrategy"
      z == CASE f = "STEG" -> parse_zones_steg(text)
             [] f = "SONEDE" -> parse_zones_sonede(text)
             [] OTHER -> parse_zones_generic(text)
      r2 == [ResultatExtraction EXCEPT
               !.fournisseur = f, !.types_energie = types,
               !.type_facture = IF types # <<>> THEN types[1] ELSE "inconnu"]
      ref == extract_reference(text, strat)
      r4 == [r2 EXCEPT
               !.periode = extract_period(text, strat),
               !.reference_facture = ref[1],
               !.reference_client = ref[2],
               !.adresse = extract_address_generic(text),
               !.donnees =
                  <<Donnee("Type d'energie", Txt(get_energy_labels(types)), "None", 90)>>
                  \o extract_consumption(text, z, strat)
                  \o extract_amounts(text, z, strat)
                  \o extract_co2_direct(text)]
      has_declared == \E i \in 1..Len(r4.donnees) : ChampHas(r4.donnees[i].champ, "declar")
      co2 == calculate_co2_combined(r4.donnees, types, order)
      r5 == IF co2.total.some
            THEN [r4 EXCEPT
                    !.emission_co2_kg = co2.total,
                    !.facteur_emission_utilise = co2.facteurs,
                    !.source_facteur = co2.sources,
                    !.detail_co2 = co2.detail,
                    !.donnees = IF has_declared THEN @ ELSE @ \o Co2Points(co2.detail)]
            ELSE r4
      r6 == [r5 EXCEPT !.alertes = cross_validate(r5.donnees, r5.emission_co2_kg, r5.periode)]
      r7 == [r6 EXCEPT !.score_global = calculate_global_score(r6)]
  IN  IF IsBlank(text)
      THEN [pc |-> "returned", result |-> [ResultatExtraction EXCEPT !.resume = Sentinel]]
      ELSE IF consumption_raises(text, strat) THEN [pc |-> "raised", result |-> r2]
      ELSE [pc |-> "returned", result |-> [r7 EXCEPT !.resume = generer_resume(r7)]]

\* the invocation has ended as it ends when it runs alone
EndsAsAlone(ctx) ==
  ctx.pc \in {"returned", "raised"} =>
     \E order \in SourceOrders :
        RunAlone(ctx.texte_ocr, order) = [pc |-> ctx.pc, result |-> ctx.result]

BothEndAsAlone ==
  /\ EndsAsAlone(Context(texte_ocr, call, pc, result, zones, strategy))
  /\ EndsAsAlone(prev)

ElecPoints ==
  {d \in Range(result.donnees) : d.champ = "Energie consommee (electricite)"}

\* how often a value occurs among the candidates, and where it occurs first
Votes(c, v) == Cardinality({j \in 1..Len(c) : c[j] = v})
FirstSeen(c, v) == First({j \in 1..Len(c) : c[j] = v})

\* C16: with the STEG strategy, the electricity value is the most frequent value
\* among the candidates of the three sources (quantity label, kWh unit, index
\* difference) that lie in [1, 100000], whatever their source; on a tie in
\* frequency the value seen first in collection order (quantity label, then kWh
\* unit, then index difference) wins; without a candidate in range there is no
\* electricity data point.
C16_MajorityVote ==
  (Returned /\ strategy = "STEGStrategy") =>
     LET c == QuantiteCandidates(texte_ocr, 1) \o KwhCandidates(texte_ocr, 1)
                \o IndexCandidates(texte_ocr, zones)
     IN  /\ \A j \in 1..Len(c) : 1 <= c[j] /\ c[j] <= 100000
         /\ c = <<>> => ElecPoints = {}
         /\ c # <<>> =>
              \E v \in Range(c) :
                 /\ ElecPoints = {Donnee("Energie consommee (electricite)",
                                         Str(Digits(v), 0), "kWh", 90)}
                 /\ \A w \in Range(c) :
                      \/ Votes(c, w) < Votes(c, v)
                      \/ Votes(c, w) = Votes(c, v) /\ FirstSeen(c, v) <= FirstSeen(c, w)

\* the labelled quantity is 400 and comes first, two kWh readings say 7: 7 is
\* reported
C16_OutvotedLabel ==
  /\ Returned /\ strategy = "STEGStrategy"
  /\ QuantiteCandidates(texte_ocr, 1) = <<400>>
  /\ KwhCandidates(texte_ocr, 1) = <<7, 7>>
  /\ ElecPoints = {Donnee("Energie consommee (electricite)", Str(<<7>>, 0), "kWh", 90)}

\* C17: with the STEG strategy, when the text holds no positive gas-metering
\* signal (a gas-meter id, a gas-section marker, a fixed charge for gas), no gas
\* data point is emitted, whatever the gas zone or the region between the
\* electricity total and the gas total holds.
C17_NoSignalNoGas ==
  (Returned /\ strategy = "STEGStrategy" /\ ~has_gaz_conso(texte_ocr)) => GasPoints = {}

\* a bill without the signal whose gas zone holds a number that would qualify
C17_QualifyingButUnsignalled ==
  /\ Returned /\ strategy = "STEGStrategy" /\ ~has_gaz_conso(texte_ocr)
  /\ find_gas_quantity_in_zone(zones.gaz, RefNumbers(texte_ocr)) = 154
  /\ GasPoints = {}

\* the digit runs of 2 to 5 digits of a token that no decimal point touches
WholeRuns(tok) ==
  CASE tok.k = "n" /\ tok.f = 0 /\ Len(tok.ds) >= 2 /\ Len(tok.ds) <= 5 -> <<tok.ds>>
    [] tok.k = "d" -> <<SubSeq(tok.ds, 1, 4), SubSeq(tok.ds, 5, 6), SubSeq(tok.ds, 7, 8)>>
    [] tok.k = "w" /\ WordTrailRun(tok.w) # <<>> /\ Len(WordTrailRun(tok.w)) >= 2 ->
         <<WordTrailRun(tok.w)>>
    [] OTHER -> <<>>

\* those of a region whose value lies in [50, 2000) and is not excluded, in text order
RECURSIVE QualifyingRuns(_, _)
QualifyingRuns(zone, exclude) ==
  IF zone = <<>> THEN <<>>
  ELSE SelectSeq(WholeRuns(Head(zone)),
                 LAMBDA c : /\ 50 <= DigVal(c) /\ DigVal(c) < 2000
                            /\ Strip0(c) \notin exclude)
       \o QualifyingRuns(Tail(zone), exclude)

\* C18: with the STEG strategy, a reported gas value is the first digit run, in
\* text order, of the chosen region whose value lies in [50, 2000) and is not in
\* the exclusion set; the gas zone is searched first and the region between the
\* electricity total and the gas total only when the gas zone is empty or holds no
\* such run.  Refuted: the leading digits of a decimal number are taken as a run.
C18_FirstQualifyingRun ==
  (Returned /\ strategy = "STEGStrategy") =>
     LET exclude == RefNumbers(texte_ocr)
         q1 == QualifyingRuns(zones.gaz, exclude)
         q2 == QualifyingRuns(BetweenTotals(texte_ocr, TotalGazAt).zone, exclude)
         chosen == IF q1 # <<>> THEN q1 ELSE q2
     IN  \A d \in GasPoints :
            chosen # <<>> /\ d.valeur = Str(Digits(DigVal(chosen[1])), 0)

\* the amount data points of the result, in the order of result.donnees
StegAmounts == SelectSeq(result.donnees, LAMBDA d : d.unite = "DT")

\* the fields of the stages of STEGStrategy.extract_amounts, by priority
StageChamps ==
  <<"Montant a payer", "Montant bulletin", "Montant total HT",
    "Sous-total electricite", "Sous-total gaz", "Sous-total services">>
StageOf(champ) == CHOOSE k \in 1..Len(StageChamps) : StageChamps[k] = champ

\* the value a stage finds in the text, before any test of the keys seen
Found(m) == IF m.matched /\ ~m.err THEN Some(m.v) ELSE None
StageValue(k, text, z) ==
  CASE k = 1 -> extract_montant_a_payer(text)
    [] k = 2 -> extract_bulletin_versement(text, z)
    [] k = 3 -> extract_montant_total(text)
    [] k = 4 -> Found(SousTotal(text, "Total Electricite", "Electricite"))
    [] k = 5 -> Found(SousTotal(text, "Total Gaz", "Gaz"))
    [] k = 6 -> Found(SousTotal(text, "Total Services", "SERVICES"))

\* C19: STEGStrategy.extract_amounts emits the amount data points in priority
\* order (amount due, payment slip, total amount, then the electricity, gas and
\* services subtotals); a stage adds its value, as its 3-decimal string, exactly
\* when that string was not recorded by an earlier stage, so no two amount data
\* points carry the same valeur; a subtotal is added only if its value is > 0.5.
C19_AmountStages ==
  (Returned /\ strategy = "STEGStrategy") =>
     LET a == StegAmounts
         n == Len(a)
     IN  /\ \A i \in 1..n : a[i].champ \in Range(StageChamps)
         /\ \A i \in 1..n : \A j \in (i + 1)..n :
              /\ StageOf(a[i].champ) < StageOf(a[j].champ)
              /\ a[i].valeur # a[j].valeur
         /\ \A k \in 1..Len(StageChamps) :
              LET v == StageValue(k, texte_ocr, zones)
                  at == {i \in 1..n : a[i].champ = StageChamps[k]}
              IN  /\ at # {} <=>
                       /\ v.some
                       /\ k >= 4 => VGt(v.v, Val(5, 1))
                       /\ \A i \in 1..n :
                            StageOf(a[i].champ) < k => a[i].valeur # Fmt3(v.v)
                  /\ \A i \in at : a[i].valeur = Fmt3(v.v)

\* the payment slip says 80.200 and the total amount 80.2004: the total, "80.200"
\* to three decimals, is not emitted again
C19_SameKeyDropped ==
  /\ Returned /\ strategy = "STEGStrategy"
  /\ StageValue(2, texte_ocr, zones) = Some(Val(80200, 3))
  /\ StageValue(3, texte_ocr, zones) = Some(Val(802004, 4))
  /\ \E i \in 1..Len(StegAmounts) : StegAmounts[i].champ = "Montant bulletin"
  /\ \A i \in 1..Len(StegAmounts) : StegAmounts[i].champ # "Montant total HT"

\* C20: in STEGStrategy.extract_amounts, whenever the amount-due value and the
\* payment-slip value both exist and differ by less than 0.01, the confidence of
\* the "Montant a payer" data point is 0.95 + 0.05 capped at 1.0 (also when the
\* payment-slip data point was dropped as a duplicate), and 0.95 otherwise; every
\* data point's confidence lies in [0, 1].  Refuted: the code tests the truth
\* value of the two amounts, not their existence, so two amounts of 0.000 do not
\* raise the confidence.
C20_CrossConfirmation ==
  (Returned /\ strategy = "STEGStrategy") =>
     LET val == StageValue(1, texte_ocr, zones)
         val2 == StageValue(2, texte_ocr, zones)
         agree == val.some /\ val2.some /\ Agree(val.v, val2.v)
     IN  /\ \A d \in Range(result.donnees) :
              d.champ = "Montant a payer" => d.confiance = IF agree THEN 100 ELSE 95
         /\ \A d \in Range(result.donnees) : 0 <= d.confiance /\ d.confiance <= 100

\* the data points of a unit with a positive numeric value, in order
PositivePoints(donnees, unite) ==
  SelectSeq(donnees, LAMBDA d : /\ d.unite = unite
                                /\ ~FloatOf(d.valeur).err /\ VPos(FloatOf(d.valeur).v))

\* C21: in the emission calculator every data point with unit kWh and a positive
\* numeric value yields one detail entry of type electricite with co2_kg = value
\* x 0.475, whatever result.types_energie contains.  Refuted: the kWh branch also
\* requires "electricite" in types_energie, so a reading outweighed by the
\* keywords of another energy is not counted.
C21_KwhAlwaysElectricity ==
  Returned =>
     LET pts == PositivePoints(result.donnees, "kWh")
         det == SelectSeq(result.detail_co2, LAMBDA e : e.type = "electricite")
     IN  /\ Len(det) = Len(pts)
         /\ \A i \in 1..Len(pts) :
              /\ det[i].consommation = FloatOf(pts[i].valeur).v
              /\ det[i].unite = "kWh"
              /\ det[i].co2_kg = Round3(DecMul(FloatOf(pts[i].valeur).v, 475, 3))

\* C22: detail_co2 holds at most one entry per energy type.  Refuted: the
\* calculator appends one entry per counted data point, and a strategy may emit
\* several readings of one unit.
C22_OneEntryPerType ==
  Returned =>
     \A i \in 1..Len(result.detail_co2) : \A j \in 1..Len(result.detail_co2) :
        result.detail_co2[i].type = result.detail_co2[j].type => i = j

\* the value of the last data point of a sequence, None if it is empty
LastValue(points) ==
  IF points = <<>> THEN None ELSE Some(FloatOf(points[Len(points)].valeur).v)

\* the positive amounts due and total amounts among the data points
DuePoints(donnees) ==
  SelectSeq(donnees, LAMBDA d : /\ d.champ = "Montant a payer" /\ d.unite # "kWh"
                                /\ ~FloatOf(d.valeur).err /\ VPos(FloatOf(d.valeur).v))
TotalPoints(donnees) ==
  SelectSeq(donnees, LAMBDA d : /\ d.champ \in {"Montant total", "Montant total HT", "Total TTC"}
                                /\ d.unite = "DT"
                                /\ ~FloatOf(d.valeur).err /\ VPos(FloatOf(d.valeur).v))

TariffAlerts == SelectSeq(result.alertes, LAMBDA a : a.kind = "Tarif estime hors plage")

\* amount / kWh < 0.05 or amount / kWh > 2.0
TariffOutside(amount, kwh) ==
  \/ DecLt(DecMul(amount, 20, 0), DecOf(kwh))
  \/ DecLt(DecMul(kwh, 2, 0), DecOf(amount))

\* the tariff alert is raised exactly when it is due
TariffAlertWhenDue ==
  Returned =>
     LET kwh == LastValue(PositivePoints(result.donnees, "kWh"))
         due == LastValue(DuePoints(result.donnees))
         total == LastValue(TotalPoints(result.donnees))
         amount == IF due.some THEN due ELSE total
     IN  /\ Len(TariffAlerts) <= 1
         /\ TariffAlerts # <<>> <=>
              kwh.some /\ amount.some /\ TariffOutside(amount.v, kwh.v)

\* C23: the cross-validator raises the tariff alert exactly when a positive kWh
\* consumption and a positive amount exist and amount / kWh is below 0.05 or
\* above 2.0, the amount being the amount due when there is one and the total
\* amount otherwise; the step that raises it changes no field of the result but
\* alertes (the data points, emission_co2_kg and detail_co2 stay as they were).
C23_TariffAlert ==
  /\ []TariffAlertWhenDue
  /\ [][pc = "validation" => result' = [result EXCEPT !.alertes = result'.alertes]]_vars

\* the amount due gives a tariff inside the range, the total amount one outside:
\* no alert is raised
C23_DueBeforeTotal ==
  /\ Returned /\ TariffAlerts = <<>>
  /\ LET kwh == LastValue(PositivePoints(result.donnees, "kWh"))
         due == LastValue(DuePoints(result.donnees))
         total == LastValue(TotalPoints(result.donnees))
     IN  /\ kwh.some /\ due.some /\ total.some
         /\ ~TariffOutside(due.v, kwh.v) /\ TariffOutside(total.v, kwh.v)

\* the ISO dates of the period string, and the period alerts of the result
PeriodDatesOf(periode) == SelectSeq(periode, IsDate)
PeriodKinds == {"Periode inversee", "Periode longue", "Periode courte"}
RaisedPeriodAlerts == SelectSeq(result.alertes, LAMBDA a : a.kind \in PeriodKinds)

\* C24: when the period string holds two parseable ISO dates d1, d2 in that order,
\* the validator raises the inverted-period alert if d2 is before d1, the
\* long-period alert if d2 - d1 > 365 days and the short-period alert if
\* 0 <= d2 - d1 < 7 days; at most one of the three is raised, and none when the
\* period holds fewer than two ISO dates or one that is no calendar date.
C24_PeriodAlerts ==
  Returned =>
     LET ds == PeriodDatesOf(result.periode)
         raised == {RaisedPeriodAlerts[i].kind : i \in 1..Len(RaisedPeriodAlerts)}
     IN  /\ Len(RaisedPeriodAlerts) <= 1
         /\ IF Len(ds) >= 2 /\ ValidDate(ds[1]) /\ ValidDate(ds[2])
            THEN LET delta == Ordinal(ds[2]) - Ordinal(ds[1])
                 IN  /\ delta < 0 => raised = {"Periode inversee"}
                     /\ delta > 365 => raised = {"Periode longue"}
                     /\ (0 <= delta /\ delta < 7) => raised = {"Periode courte"}
                     /\ (7 <= delta /\ delta <= 365) => raised = {}
            ELSE raised = {}

\* a period of 366 days, one more than the longest that raises nothing
C24_LongPeriod ==
  /\ Returned
  /\ Len(PeriodDatesOf(result.periode)) = 2
  /\ Ordinal(result.periode[2]) - Ordinal(result.periode[1]) = 366
  /\ \E i \in 1..Len(result.alertes) : result.alertes[i].kind = "Periode longue"

\* the conditions of the score with the amount one read as "a data point in a
\* currency exists", whatever its field
AmountPresent(r) == \E i \in 1..Len(r.donnees) : r.donnees[i].unite = "DT"
LabelledAmountPresent(r) ==
  \E i \in 1..Len(r.donnees) :
     ChampHas(r.donnees[i].champ, "montant") \/ ChampHas(r.donnees[i].champ, "payer")
MaskByUnit(r) ==
  ScoreMask(r) - (IF LabelledAmountPresent(r) THEN 8 ELSE 0)
               + (IF AmountPresent(r) THEN 8 ELSE 0)

\* C25: score_global is, clamped to [0, 1] and rounded to two decimals, the sum
\* of 0.10 for a known type, 0.10 for a supplier, 0.10 for a period, 0.25 x the
\* highest confidence of a kWh / m3 / litres data point, 0.15 when the result
\* holds an amount data point whatever its field, 0.15 for a computed CO2 total,
\* 0.05 for a reference and 0.10 when no alert was raised.  Refuted: the 0.15 is
\* granted only when a field contains "montant" or "payer", so a result whose
\* only amounts are subtotals does not get it.
C25_WeightedScore ==
  (Returned /\ NotBlank) =>
     LET m == MaskByUnit(result)
         c == ConsoConf(result.donnees)
         e == Min(10000, 1000 * Bit(m, 1) + 1000 * Bit(m, 2) + 1000 * Bit(m, 4) + 25 * c
                           + 1500 * Bit(m, 8) + 1500 * Bit(m, 16) + 500 * Bit(m, 32)
                           + 1000 * Bit(m, 64))
         down == 1000 * c + m \in ScoreTiesDown
     IN  result.score_global =
           IF e % 100 > 50 \/ (e % 100 = 50 /\ ~down) THEN e \div 100 + 1 ELSE e \div 100

\* a zone is a run of consecutive tokens of the text
Contiguous(zone, text) ==
  \E lo \in 1..Len(text) : \E hi \in lo..Len(text) : zone = SubSeq(text, lo, hi)

\* an anchor of the zone begins in some token of the text
AnchorIn(text, At(_, _)) == \E i \in 1..Len(text) : At(text, i)
ConsoAt(text, i) == HasConso(text[i])
ElecAt(text, i) == HasElec(text[i])
TaxeAt(text, i) == HasTaxe(text[i])

\* the zones of the segmenter but the consumption one are empty without their anchor
ZonesEmptyWithoutAnchor ==
  /\ ~AnchorIn(texte_ocr, ElecAt) => zones.electricite = <<>>
  /\ ~AnchorIn(texte_ocr, TotalElecAt) => zones.gaz = <<>>
  /\ ~AnchorIn(texte_ocr, GazZoneClosing) => zones.gaz = <<>>
  /\ ~AnchorIn(texte_ocr, MontantTotalAt) => zones.montants = <<>>
  /\ ~AnchorIn(texte_ocr, TaxeAt) => zones.taxes = <<>>
  /\ ~AnchorIn(texte_ocr, BulletinAt) => zones.pied = <<>>

ZonesContiguous ==
  \A f \in {"entete", "consommation", "electricite", "gaz", "montants", "taxes", "pied"} :
     zones[f] # <<>> => Contiguous(zones[f], texte_ocr)

\* C26: in the STEG segmenter every zone whose anchor is not found in the text is
\* left empty: the consumption zone when "consommation" is absent, and each of
\* the electricity, gas, amounts, taxes and footer zones when its own anchor is
\* absent; every zone that is not empty is a contiguous part of the text.
\* Refuted: without "consommation" the consumption zone is the whole text.
C26_ZoneEmptyWithoutAnchor ==
  strategy = "STEGStrategy" =>
     /\ ~AnchorIn(texte_ocr, ConsoAt) => zones.consommation = <<>>
     /\ ZonesEmptyWithoutAnchor
     /\ ZonesContiguous

\* the distinct ISO dates of the text, and the n-th smallest of a set of dates
DistinctDates(text) == {IsoDates(text)[i] : i \in 1..Len(IsoDates(text))}
NthDate(S, n) == CHOOSE a \in S : Cardinality({b \in S : DateLt(b, a)}) = n - 1

\* C27: STEGStrategy.extract_period returns "A au B", A and B the two smallest
\* distinct ISO dates of the text (A < B), when the text holds at least two
\* distinct ISO dates; with fewer than two distinct ISO dates it returns what the
\* generic period extractor returns for the text.  Refuted: a text that holds one
\* date twice gets the period "A au A", whatever the generic extractor returns.
C27_StegPeriod ==
  (Returned /\ strategy = "STEGStrategy") =>
     LET S == DistinctDates(texte_ocr)
     IN  IF Cardinality(S) >= 2
         THEN result.periode = <<NthDate(S, 1), NthDate(S, 2)>>
         ELSE result.periode = extract_period_generic(texte_ocr)

\* C28: no result of the pipeline carries the alert "Periode inversee": a period
\* of two ISO dates is built from the sorted dates, so its second date is never
\* before its first.  Refuted: the dates are sorted as strings, and a date written
\* in Arabic-Indic digits sorts after every date written in ASCII digits.
C28_NeverInverted ==
  Returned =>
     /\ \A i \in 1..Len(result.alertes) : result.alertes[i].kind # "Periode inversee"
     /\ LET ds == PeriodDatesOf(result.periode)
        IN  (Len(ds) >= 2 /\ ValidDate(ds[1]) /\ ValidDate(ds[2])) =>
               Ordinal(ds[1]) <= Ordinal(ds[2])

\* C29: for every input score_global is strictly below 1.0: no strategy emits a
\* data point of unit kWh, m3 or litres with a confidence above 0.90, so the
\* weighted sum never exceeds 0.975, even with every presence signal set and no
\* alert raised.
C29_ScoreBelowOne ==
  /\ \A i \in 1..Len(result.donnees) :
        result.donnees[i].unite \in {"kWh", "m3", "litres"} => result.donnees[i].confiance <= 90
  /\ Returned => (result.score_global < 100 /\ ScoreSum(result) <= 9750)

\* every presence signal set, no alert, and a consumption held at 0.90: the sum
\* is 0.975
C29_EverySignal ==
  /\ Returned
  /\ result.type_facture # "inconnu" /\ result.fournisseur # "None" /\ result.periode # <<>>
  /\ LabelledAmountPresent(result) /\ result.emission_co2_kg.some
  /\ (result.reference_facture # NoStr \/ result.reference_client # NoStr)
  /\ result.alertes = <<>>
  /\ ConsoConf(result.donnees) = 90
  /\ ScoreSum(result) = 9750

\* the declared and the computed emission data points among the data points
ComputedChamps == {"Emissions CO2 (" \o t \o ")" : t \in Range(TypeOrder)}
HasDeclared(donnees) ==
  \E i \in 1..Len(donnees) : donnees[i].champ = "Emissions CO2 (declarees)"
ComputedPoints(donnees) == SelectSeq(donnees, LAMBDA d : d.champ \in ComputedChamps)

\* the data point of one entry of detail_co2
PointOf(entry) ==
  Donnee("Emissions CO2 (" \o entry.type \o ")", FloatStr(entry.co2_kg), "kg CO2", 75)

\* once step 5 has run: the computed data points are those of detail_co2, at the
\* end of donnees, when a total was computed and nothing was declared; there is
\* none otherwise
ComputedIffNoDeclared ==
  pc \in {"validation", "score", "resume", "returned"} =>
     LET n == Len(result.donnees)
         k == Len(result.detail_co2)
     IN  IF result.emission_co2_kg.some /\ ~HasDeclared(result.donnees)
         THEN /\ ComputedPoints(result.donnees) = [i \in 1..k |-> PointOf(result.detail_co2[i])]
              /\ k <= n /\ SubSeq(result.donnees, n - k + 1, n) = ComputedPoints(result.donnees)
         ELSE ComputedPoints(result.donnees) = <<>>

\* step 5 keeps the extracted data points as they are, and sets the total and
\* the detail whether an emission is declared or not
CalculatorKeepsPoints ==
  pc = "co2" =>
     LET total == Co2Total(result.donnees, result.types_energie)
     IN  /\ Len(result'.donnees) >= Len(result.donnees)
         /\ SubSeq(result'.donnees, 1, Len(result.donnees)) = result.donnees
         /\ HasDeclared(result.donnees) => result'.donnees = result.donnees
         /\ result'.emission_co2_kg.some <=> ~DecIsZero(total)
         /\ ~DecIsZero(total) =>
              /\ result'.emission_co2_kg = Some(Round3(total))
              /\ result'.detail_co2 = Co2Detail(result.donnees, result.types_energie)

\* C30: the data points "Emissions CO2 (<type>)", one per entry of detail_co2 and
\* after all extracted data points, are added to donnees iff a CO2 total was
\* computed and no declared emission was extracted; with a declared emission,
\* emission_co2_kg and detail_co2 are still set from the computed values and
\* donnees gains nothing; the calculator never adds, removes or changes a data
\* point.
C30_ComputedPoints ==
  /\ []ComputedIffNoDeclared
  /\ [][CalculatorKeepsPoints]_vars

\* a bill with a reading and a declared emission: the total is computed and no
\* computed data point is added
C30_DeclaredAndComputed ==
  /\ Returned
  /\ HasDeclared(result.donnees)
  /\ result.emission_co2_kg.some /\ result.detail_co2 # <<>>
  /\ ComputedPoints(result.donnees) = <<>>

====
